---- MODULE Spec2Model ----
(***************************************************************************)
(* Verification model of the Slang back end: the emission engine of        *)
(* source/slang/emit.cpp (source-location tracking, extension/version      *)
(* tracker, struct declarations, structured control-flow reconstruction),  *)
(* the type-legalization cache of source/slang/legalize-types.h and the    *)
(* generics-lowering pipeline of source/slang/slang-ir-lower-generics.cpp. *)
(*                                                                         *)
(* Text is modelled as a sequence of characters; in the control-flow       *)
(* specification a whole lexeme ("for(;;)", "break;") stands for one        *)
(* character.  The newline character is the string "\n".                    *)
(***************************************************************************)
EXTENDS Integers, Sequences, FiniteSets, TLC

VARIABLES
    shared,          \* SharedEmitContext (plus the pending invariant fault)
    compileRequest,  \* the fields of the CompileRequest the emitter reads
    lastCall,        \* the most recent call and what it observed
    emitCount,       \* number of text-emission calls made so far
    callLog,         \* the calls made on the session so far, in order
    func,            \* the IR function whose body is being emitted
    frames,          \* the activations of emitIRStmtsForBlocks, innermost last
    context,         \* the context object of the pass being run
    pipeline         \* a driver's position, the passes it ran, and the sink

vars == <<shared, compileRequest, lastCall, emitCount, callLog, func, frames,
          context, pipeline>>

----------------------------------------------------------------------------
(* Bounds *)

MaxLine == 5      \* requested source lines are 0..MaxLine
MaxEmits == 2     \* at most MaxEmits calls of Emit in one behaviour
MaxCalls == 3     \* at most MaxCalls logged calls on one session

----------------------------------------------------------------------------
(* Small helpers on sequences *)

CountOf(tok, seq) == Cardinality({i \in 1..Len(seq) : seq[i] = tok})

Repeat(tok, n) == [i \in 1..n |-> tok]

Suffix(seq, from) == SubSeq(seq, from + 1, Len(seq))

\* sprintf("%llu") / sprintf("%d") of a non-negative number
DigitChar(d) == <<"0", "1", "2", "3", "4", "5", "6", "7", "8", "9">>[d + 1]

RECURSIVE Digits(_)
Digits(n) == IF n < 10 THEN <<DigitChar(n)>>
             ELSE Digits(n \div 10) \o <<DigitChar(n % 10)>>

----------------------------------------------------------------------------
(* Source locations *)

HumaneSourceLoc(path, line, column) ==
    [path |-> path, line |-> line, column |-> column]

\* a default-constructed HumaneSourceLoc
NoLoc == HumaneSourceLoc(<<>>, 0, 0)

Paths == { <<"a">>, <<"d", "\\", "b">> }
Columns == {1, 3}
Locs == { HumaneSourceLoc(p, l, c) : p \in Paths, l \in 0..MaxLine, c \in Columns }

LineDirectiveModes == {"None", "Default", "Standard", "GLSL"}

DirectiveStart == "\n#line "

----------------------------------------------------------------------------
(* Low-level emit logic *)

emitRawText(s, text) ==
    IF s.fault THEN s ELSE [s EXCEPT !.sb = @ \o text]

kSmallLineCount_off_by_one == 3 + 1

kSmallLineCount == 3

\* the switch on the line-directive mode at the top of emitLineDirectiveIfNeeded
lineDirectivesSuppressed_only_none(mode) == mode = "None"

lineDirectivesSuppressed(mode) == mode \in {"None", "Default"}

\* a value and what is done with it next
With(value, Next(_)) == CHOOSE result \in { Next(v) : v \in {value} } : TRUE

\* emitLineDirective: writes the directive, does not touch the cursor
\* id = glslSourceIDCount++: the ID a path not seen before is given
nextGLSLSourceID_previous(s) == IF s.glslSourceIDCount = 0 THEN 0 ELSE s.glslSourceIDCount - 1
nextGLSLSourceID(s) == s.glslSourceIDCount

emitLineDirective(s, sourceLocation) ==
    With(emitRawText(emitRawText(emitRawText(s, <<DirectiveStart>>),
                                 Digits(sourceLocation.line)), <<" ">>),
         LAMBDA s3 :
            LET mode == compileRequest.lineDirectiveMode
                shouldUseGLSLStyleLineDirective ==
                    CASE mode = "Standard" -> FALSE
                      [] mode = "GLSL" -> TRUE
                      [] OTHER -> s.finalTarget = "GLSL"
                path == sourceLocation.path
                known == path \in DOMAIN s3.mapGLSLSourcePathToID
                id == IF known THEN s3.mapGLSLSourcePathToID[path]
                      ELSE nextGLSLSourceID(s3)
                canonical == [i \in 1..Len(path) |->
                                IF path[i] = "\\" THEN "/" ELSE path[i]]
            IN  IF mode \in {"None", "Default"}
                THEN [s3 EXCEPT !.fault = TRUE]
                ELSE emitRawText(
                        IF shouldUseGLSLStyleLineDirective
                        THEN emitRawText(
                                IF known THEN s3
                                ELSE [s3 EXCEPT
                                        !.glslSourceIDCount = @ + 1,
                                        !.mapGLSLSourcePathToID =
                                            [q \in DOMAIN @ \cup {path} |->
                                                IF q = path THEN id ELSE @[q]]],
                                Digits(id))
                        ELSE emitRawText(emitRawText(emitRawText(s3, <<"\"">>),
                                                     canonical), <<"\"">>),
                        <<"\n">>))

emitLineDirectiveAndUpdateSourceLocation_stale(s, sourceLocation) ==
    emitLineDirective(s, sourceLocation)

emitLineDirectiveAndUpdateSourceLocation(s, sourceLocation) ==
    With(emitLineDirective(s, sourceLocation),
         LAMBDA s1 :
            IF s1.fault THEN s1
            ELSE [s1 EXCEPT !.loc = [sourceLocation EXCEPT !.column = 1]])

RECURSIVE emitTextSpan(_, _)
RECURSIVE EmitLoop(_, _, _, _)
RECURSIVE emitLineDirectiveIfNeeded(_, _)
RECURSIVE flushSourceLocationChange(_)

\* (nothing more is emitted once an invariant fault unwinds the session)
Emit(s, text) ==
    With(s, LAMBDA s0 : IF s0.fault THEN s0 ELSE EmitLoop(s0, text, 1, 1))

\* the padding loop of emitLineDirectiveIfNeeded: lineDiff times Emit("\n")
RECURSIVE EmitNewlines(_, _)
EmitNewlines(s, n) ==
    IF n <= 0 THEN s ELSE EmitNewlines(Emit(s, <<"\n">>), n - 1)

emitLineDirectiveIfNeeded(s, sourceLocation) ==
    LET mode == compileRequest.lineDirectiveMode
        lineDiff == sourceLocation.line - s.loc.line
    IN  IF lineDirectivesSuppressed(mode) THEN s
        ELSE IF sourceLocation.line <= 0 THEN s
        ELSE IF sourceLocation.path # s.loc.path
                \/ sourceLocation.line # s.loc.line
                \/ sourceLocation.column < s.loc.column
        THEN IF sourceLocation.path = s.loc.path
                /\ sourceLocation.line > s.loc.line
                /\ lineDiff <= kSmallLineCount
             THEN With(EmitNewlines(s, lineDiff),
                       LAMBDA s1 :
                          IF sourceLocation.line = s1.loc.line THEN s1
                          ELSE [s1 EXCEPT !.fault = TRUE])
             ELSE emitLineDirectiveAndUpdateSourceLocation(s, sourceLocation)
        ELSE s

flushSourceLocationChange(s) ==
    IF ~s.needToUpdateSourceLocation THEN s
    ELSE emitLineDirectiveIfNeeded(
            [s EXCEPT !.needToUpdateSourceLocation = FALSE],
            s.nextSourceLocation)

emitTextSpan(s, span) ==
    IF span = <<>> THEN s
    ELSE With(flushSourceLocationChange(s),
              LAMBDA s1 :
                 LET indentString == <<" ", " ", " ", " ">>
                 IN  [emitRawText(
                        IF s1.isAtStartOfLine /\ span[1] # "\n"
                        THEN [emitRawText(s1,
                                [i \in 1..(s1.indentLevel * Len(indentString))
                                    |-> " "])
                              EXCEPT !.isAtStartOfLine = FALSE,
                                     !.loc.column =
                                        @ + s1.indentLevel * Len(indentString)]
                        ELSE s1,
                        span)
                      EXCEPT !.loc.column = @ + Len(span)])

\* Emit(textBegin, textEnd): the span is text[spanBegin .. spanEnd-1]
EmitLoop(s, text, spanBegin, spanEnd) ==
    IF spanEnd = Len(text) + 1
    THEN emitTextSpan(s, SubSeq(text, spanBegin, spanEnd - 1))
    ELSE IF text[spanEnd] = "\n"
         THEN LET s1 == emitTextSpan(s, SubSeq(text, spanBegin, spanEnd))
              IN  EmitLoop([s1 EXCEPT !.loc.line = @ + 1,
                                      !.loc.column = 1,
                                      !.isAtStartOfLine = TRUE],
                           text, spanEnd + 1, spanEnd + 1)
         ELSE EmitLoop(s, text, spanBegin, spanEnd + 1)

advanceToSourceLocation_first(s, sourceLocation) ==
    IF sourceLocation.line <= 0 \/ s.needToUpdateSourceLocation THEN s
    ELSE [s EXCEPT !.needToUpdateSourceLocation = TRUE,
                   !.nextSourceLocation = sourceLocation]

advanceToSourceLocation(s, sourceLocation) ==
    IF sourceLocation.line <= 0 THEN s
    ELSE [s EXCEPT !.needToUpdateSourceLocation = TRUE,
                   !.nextSourceLocation = sourceLocation]

----------------------------------------------------------------------------
(* ExtensionUsageTracker *)

\* The GLSL members of ProfileVersion in declaration order; a ProfileVersion
\* is represented by its position in this table, which is what the
\* comparison (UInt)version > (UInt)tracker->profileVersion orders by.
VersionTable == <<110, 120, 130, 140, 150, 330, 400, 410, 420, 430, 440, 450>>

GLSL_110 == 1

ExtensionUsageTracker ==
    [ glslExtensionsRequired |-> {},
      glslExtensionRequireLines |-> <<>>,
      profileVersion |-> GLSL_110 ]

requireGLSLExtension_no_check(tracker, name) ==
    [tracker EXCEPT
        !.glslExtensionRequireLines = @ \o <<"#extension ", name, " : require\n">>,
        !.glslExtensionsRequired = @ \cup {name}]

requireGLSLExtension(tracker, name) ==
    IF name \in tracker.glslExtensionsRequired THEN tracker
    ELSE [tracker EXCEPT
            !.glslExtensionRequireLines =
                @ \o <<"#extension ", name, " : require\n">>,
            !.glslExtensionsRequired = @ \cup {name}]

requireGLSLVersionImpl_always_assign(tracker, version) ==
    [tracker EXCEPT !.profileVersion = version]

requireGLSLVersionImpl(tracker, version) ==
    IF version > tracker.profileVersion
    THEN [tracker EXCEPT !.profileVersion = version]
    ELSE tracker

\* requireGLSLVersion(ProfileVersion)
requireGLSLVersion(s, version) ==
    IF s.target # "GLSL" THEN s
    ELSE [s EXCEPT !.extensionUsageTracker = requireGLSLVersionImpl(@, version)]

\* requireGLSLVersion(int): the switch over the supported version numbers
requireGLSLVersionInt(s, version) ==
    IF \E i \in DOMAIN VersionTable : VersionTable[i] = version
    THEN requireGLSLVersion(s,
            CHOOSE i \in DOMAIN VersionTable : VersionTable[i] = version)
    ELSE s

----------------------------------------------------------------------------
(* The session state after construction (emitEntryPoint) *)

SharedEmitContext(target, finalTarget, need) ==
    [ target |-> target,
      finalTarget |-> finalTarget,
      sb |-> <<>>,
      loc |-> NoLoc,
      nextSourceLocation |-> NoLoc,
      needToUpdateSourceLocation |-> need,
      mapGLSLSourcePathToID |-> <<>>,
      glslSourceIDCount |-> 0,
      isAtStartOfLine |-> TRUE,
      indentLevel |-> 0,
      extensionUsageTracker |-> ExtensionUsageTracker,
      irDeclsVisited |-> {},
      needHackSamplerForTexelFetch |-> FALSE,
      uniqueIDCounter |-> 1,
      mapIRValueToID |-> <<>>,
      mapDeclToID |-> <<>>,
      fault |-> FALSE ]

NoCall == [op |-> "none"]

NoFunc == [name |-> "none"]
NoContext == [name |-> "none"]
NoPipeline == [name |-> "none"]

----------------------------------------------------------------------------
(* Structured control flow: emitIRStmtsForBlocks *)

NULL == "nullptr"

kLabelOp_break == "break"
kLabelOp_continue == "continue"

LabelStack(block, op) == [block |-> block, op |-> op]

\* registeredBlock[op]: the innermost registered target of a kind
registeredBlock(labels, op) ==
    IF \E i \in DOMAIN labels : labels[i].op = op
    THEN labels[CHOOSE i \in DOMAIN labels :
                  /\ labels[i].op = op
                  /\ \A j \in 1..(i - 1) : labels[j].op # op].block
    ELSE NULL

\* the search of the usable labels for the block: the innermost entry that
\* names the block, 0 when there is none
findLabel(useLabels, block) ==
    IF \E i \in DOMAIN useLabels : useLabels[i].block = block
    THEN CHOOSE i \in DOMAIN useLabels :
            /\ useLabels[i].block = block
            /\ \A j \in 1..(i - 1) : useLabels[j].block # block
    ELSE 0

\* an activation emitIRStmtsForBlocks(ctx, begin, end, initialLabels, labels)
NewFrame(begin, end, initialLabels, labels) ==
    [ begin |-> begin, end |-> end, block |-> begin,
      labels |-> IF labels = <<>> THEN initialLabels ELSE labels,
      useLabels |-> initialLabels,
      pc |-> "top", caseIndex |-> 0, defaultLabelHandled |-> FALSE ]

Top == frames[Len(frames)]
Return == SubSeq(frames, 1, Len(frames) - 1)
Call(caller, callee) == Append([frames EXCEPT ![Len(frames)] = caller], callee)

\* the end of one iteration: switch to the full labels, return when control
\* is back at the first block of the region, else go on with the block
Continue(frame, block) ==
    IF block = frame.begin THEN Return
    ELSE [frames EXCEPT ![Len(frames)] =
            [frame EXCEPT !.block = block, !.useLabels = frame.labels,
                          !.pc = "top"]]

Block(b) == func.blocks[b]
Terminator(b) == func.blocks[b].terminator

\* emitIRInst for the ordinary instructions of a block
\* An instruction is named by its text; UnhandledInst stands for an
\* instruction whose opcode emitIRInstExpr has no case for.
UnhandledInst == "unhandledOp"

\* emitIRInstExpr: the default case writes a placeholder comment and breaks.
emitIRInstExpr(s, inst) ==
    IF inst = UnhandledInst THEN Emit(s, <<"/* unhandled */">>)
    ELSE Emit(s, <<inst>>)

RECURSIVE emitIRInsts(_, _)
emitIRInsts(s, insts) ==
    IF insts = <<>> THEN s
    ELSE emitIRInsts(Emit(emitIRInstExpr(s, Head(insts)), <<";", "\n">>),
                     Tail(insts))

RECURSIVE emitPhiVarAssignmentsFrom(_, _, _, _)
emitPhiVarAssignmentsFrom(s, args, params, argCounter) ==
    IF argCounter > Len(params) THEN s
    ELSE IF argCounter > Len(args) THEN s
    ELSE emitPhiVarAssignmentsFrom(
            Emit(Emit(Emit(Emit(s, <<params[argCounter]>>), <<" = ">>),
                      <<args[argCounter]>>), <<";", "\n">>),
            args, params, argCounter + 1)

emitPhiVarAssignments(s, args, targetBlock) ==
    emitPhiVarAssignmentsFrom(s, args, Block(targetBlock).params, 1)

\* the part of one iteration before the switch on the terminator
emitBlockInsts(s, b) ==
    advanceToSourceLocation(emitIRInsts(s, Block(b).insts),
                            Terminator(b).sourceLoc)

indent(s) == [s EXCEPT !.indentLevel = @ + 1]
dedent_keep(s) == s

dedent(s) == [s EXCEPT !.indentLevel = @ - 1]

AtTop ==
    /\ frames # <<>>
    /\ ~shared.fault
    /\ Top.pc = "top"

\* the block is neither the end of the region nor a usable label
AtBlock(ops) ==
    /\ AtTop
    /\ Top.block # Top.end
    /\ findLabel(Top.useLabels, Top.block) = 0
    /\ Terminator(Top.block).op \in ops

AtPc(pc) ==
    /\ frames # <<>>
    /\ ~shared.fault
    /\ Top.pc = pc

WalkStep(op) == [op |-> op, block |-> Top.block, frame |-> Top]

Others == UNCHANGED <<compileRequest, emitCount, callLog, func, context, pipeline>>

\* while(block != end) fails
WalkReachEnd ==
    /\ AtTop
    /\ Top.block = Top.end
    /\ frames' = Return
    /\ lastCall' = WalkStep("end")
    /\ UNCHANGED shared /\ Others

\* the block is registered as a label that may be used
WalkLabel ==
    /\ AtTop
    /\ Top.block # Top.end
    /\ findLabel(Top.useLabels, Top.block) # 0
    /\ LET ll == Top.useLabels[findLabel(Top.useLabels, Top.block)]
       IN  /\ shared' = IF ll.op = kLabelOp_break
                        THEN Emit(shared, <<"break;", "\n">>)
                        ELSE Emit(shared, <<"continue;", "\n">>)
           /\ lastCall' = [op |-> "label", block |-> Top.block, frame |-> Top,
                           entry |-> findLabel(Top.useLabels, Top.block),
                           registered |-> registeredBlock(Top.labels, ll.op)]
    /\ frames' = Return
    /\ Others

WalkUnreachable ==
    /\ AtBlock({"unreachable"})
    /\ shared' = emitBlockInsts(shared, Top.block)
    /\ frames' = Return
    /\ lastCall' = WalkStep("unreachable")
    /\ Others

WalkReturn ==
    /\ AtBlock({"ReturnVal", "ReturnVoid", "discard"})
    /\ shared' = Emit(emitBlockInsts(shared, Top.block),
                      <<Terminator(Top.block).op, ";", "\n">>)
    /\ frames' = Return
    /\ lastCall' = WalkStep("return")
    /\ Others

\* SLANG_UNEXPECTED("terminator inst"): a conditionalBranch or an unknown op
WalkUnexpected ==
    /\ AtBlock({"conditionalBranch", "unknown"})
    /\ shared' = [emitBlockInsts(shared, Top.block) EXCEPT !.fault = TRUE]
    /\ lastCall' = WalkStep("unexpected")
    /\ UNCHANGED frames /\ Others

WalkUnconditionalBranch ==
    /\ AtBlock({"unconditionalBranch"})
    /\ LET t == Terminator(Top.block)
       IN  /\ shared' = emitPhiVarAssignments(emitBlockInsts(shared, Top.block),
                                              t.args, t.targetBlock)
           /\ frames' = Continue(Top, t.targetBlock)
    /\ lastCall' = [op |-> "unconditionalBranch", block |-> Top.block,
                    frame |-> Top,
                    phi |-> <<Len(emitBlockInsts(shared, Top.block).sb) + 1,
                              Len(shared'.sb)>>]
    /\ Others

\* if(cond) { trueBlock .. afterBlock }
WalkIfElse ==
    /\ AtBlock({"ifElse"})
    /\ LET t == Terminator(Top.block)
       IN  /\ shared' = indent(Emit(Emit(Emit(emitBlockInsts(shared, Top.block),
                                   <<"if(">>), <<t.condition>>),
                                   <<")", "\n", "{", "\n">>))
           /\ frames' = Call([Top EXCEPT !.pc = "ifElse-true"],
                             NewFrame(t.trueBlock, t.afterBlock, Top.labels, <<>>))
    /\ lastCall' = WalkStep("ifElse")
    /\ Others

\* ... } else { falseBlock .. afterBlock
AfterTrueBlock ==
    /\ AtPc("ifElse-true")
    /\ LET t == Terminator(Top.block)
           s1 == Emit(dedent(shared), <<"}", "\n">>)
       IN  IF t.falseBlock # t.afterBlock
           THEN /\ shared' = indent(Emit(s1, <<"else", "\n", "{", "\n">>))
                /\ frames' = Call([Top EXCEPT !.pc = "ifElse-false"],
                                  NewFrame(t.falseBlock, t.afterBlock,
                                           Top.labels, <<>>))
           ELSE /\ shared' = s1
                /\ frames' = Continue(Top, t.afterBlock)
    /\ lastCall' = WalkStep("ifElse-true")
    /\ Others

\* ... } and on with the block after the `if`
AfterFalseBlock ==
    /\ AtPc("ifElse-false")
    /\ shared' = Emit(dedent(shared), <<"}", "\n">>)
    /\ frames' = Continue(Top, Terminator(Top.block).afterBlock)
    /\ lastCall' = WalkStep("ifElse-false")
    /\ Others

\* the continue label of a loop is its header (target) block
loopContinueBlock_continue_block(t) == t.continueBlock

loopContinueBlock(t) == t.targetBlock

\* for(;;) { targetBlock ..
WalkLoop ==
    /\ AtBlock({"loop"})
    /\ LET t == Terminator(Top.block)
           subBreakLabel == <<LabelStack(t.breakBlock, kLabelOp_break)>>
                                \o Top.labels
           subContinueLabel ==
               <<LabelStack(loopContinueBlock(t), kLabelOp_continue)>>
                   \o subBreakLabel
           s1 == emitPhiVarAssignments(emitBlockInsts(shared, Top.block),
                                       t.args, t.targetBlock)
           s2 == IF t.loopControl = "unroll" /\ s1.target = "HLSL"
                 THEN Emit(s1, <<"[unroll]", "\n">>) ELSE s1
       IN  /\ shared' = indent(Emit(s2, <<"for(;;)", "\n", "{", "\n">>))
           /\ frames' = Call([Top EXCEPT !.pc = "loop-body"],
                             NewFrame(t.targetBlock, NULL,
                                      subBreakLabel, subContinueLabel))
           /\ lastCall' = [op |-> "loop", block |-> Top.block, frame |-> Top,
                           phi |-> <<Len(emitBlockInsts(shared, Top.block).sb) + 1,
                                     Len(s1.sb)>>]
    /\ Others

\* ... } and on with the block after the loop
AfterLoopBody ==
    /\ AtPc("loop-body")
    /\ shared' = Emit(dedent(shared), <<"}", "\n">>)
    /\ frames' = Continue(Top, Terminator(Top.block).breakBlock)
    /\ lastCall' = WalkStep("loop-body")
    /\ Others

\* the test that folds the next case into the group: its label is the
\* group's label
nextCaseFolds_never(nextCaseLabel, caseLabel) == FALSE

nextCaseFolds(nextCaseLabel, caseLabel) == nextCaseLabel = caseLabel

\* the folding loop of a case group: the index after the run of cases that
\* share caseLabel, starting behind the first case of the group
RECURSIVE foldCases(_, _, _)
foldCases(t, caseLabel, caseIndex) ==
    IF caseIndex >= Len(t.cases) THEN caseIndex
    ELSE IF ~nextCaseFolds(t.cases[caseIndex + 1].label, caseLabel) THEN caseIndex
    ELSE foldCases(t, caseLabel, caseIndex + 1)

\* `case V:` for the cases first+1 .. last of the table
RECURSIVE emitCaseLabels(_, _, _, _)
emitCaseLabels(s, t, first, last) ==
    IF first >= last THEN s
    ELSE emitCaseLabels(
            Emit(Emit(Emit(s, <<"case ">>), <<t.cases[first + 1].value>>),
                 <<":", "\n">>),
            t, first + 1, last)

\* a `default` that just branches to the join point needs nothing
defaultBranchesToJoin_never(t) == FALSE
defaultBranchesToJoin(t) == t.defaultLabel = t.breakLabel

\* switch(cond) {
WalkSwitch ==
    /\ AtBlock({"switch"})
    /\ LET t == Terminator(Top.block)
       IN  /\ shared' = Emit(Emit(Emit(emitBlockInsts(shared, Top.block),
                                 <<"switch(">>), <<t.condition>>),
                                 <<")", "\n", "{", "\n">>)
           /\ frames' = [frames EXCEPT ![Len(frames)] =
                            [Top EXCEPT !.pc = "switch-cases",
                                        !.caseIndex = 0,
                                        !.defaultLabelHandled =
                                            defaultBranchesToJoin(t)]]
    /\ lastCall' = WalkStep("switch")
    /\ Others

\* one group of cases: its labels, perhaps `default:`, and its body
SwitchCase ==
    /\ AtPc("switch-cases")
    /\ Top.caseIndex < Len(Terminator(Top.block).cases)
    /\ LET t == Terminator(Top.block)
           caseLabel == t.cases[Top.caseIndex + 1].label
           caseIndex == foldCases(t, caseLabel, Top.caseIndex + 1)
           subLabels == <<LabelStack(t.breakLabel, kLabelOp_break)>> \o Top.labels
           s1 == emitCaseLabels(shared, t, Top.caseIndex, caseIndex)
           s2 == IF caseLabel = t.defaultLabel
                 THEN Emit(s1, <<"default:", "\n">>) ELSE s1
           caseEndLabel == IF caseIndex < Len(t.cases)
                           THEN t.cases[caseIndex + 1].label ELSE NULL
       IN  /\ shared' = indent(Emit(indent(s2), <<"{", "\n">>))
           /\ frames' = Call([Top EXCEPT
                                !.pc = "switch-case-body",
                                !.caseIndex = caseIndex,
                                !.defaultLabelHandled =
                                    (@ \/ caseLabel = t.defaultLabel)],
                             NewFrame(caseLabel, caseEndLabel, subLabels, <<>>))
    /\ lastCall' = WalkStep("switch-case")
    /\ Others

AfterCaseBody ==
    /\ AtPc("switch-case-body")
    /\ shared' = dedent(Emit(dedent(shared), <<"}", "\n">>))
    /\ frames' = [frames EXCEPT ![Len(frames)] = [Top EXCEPT !.pc = "switch-cases"]]
    /\ lastCall' = WalkStep("switch-case-body")
    /\ Others

\* the `default:` label was not met among the cases: a group of its own
SwitchDefault ==
    /\ AtPc("switch-cases")
    /\ Top.caseIndex >= Len(Terminator(Top.block).cases)
    /\ ~Top.defaultLabelHandled
    /\ LET t == Terminator(Top.block)
           subLabels == <<LabelStack(t.breakLabel, kLabelOp_break)>> \o Top.labels
       IN  /\ shared' = indent(Emit(indent(Emit(shared, <<"default:", "\n">>)),
                                    <<"{", "\n">>))
           /\ frames' = Call([Top EXCEPT !.pc = "switch-default-body"],
                             NewFrame(t.defaultLabel, t.breakLabel, subLabels, <<>>))
    /\ lastCall' = WalkStep("switch-default")
    /\ Others

AfterDefaultBody ==
    /\ AtPc("switch-default-body")
    /\ shared' = Emit(dedent(Emit(dedent(Emit(shared, <<"break;", "\n">>)),
                                  <<"}", "\n">>)),
                      <<"}", "\n">>)
    /\ frames' = Continue(Top, Terminator(Top.block).breakLabel)
    /\ lastCall' = WalkStep("switch-default-body")
    /\ Others

\* } and on with the block after the `switch`
SwitchEnd ==
    /\ AtPc("switch-cases")
    /\ Top.caseIndex >= Len(Terminator(Top.block).cases)
    /\ Top.defaultLabelHandled
    /\ shared' = Emit(shared, <<"}", "\n">>)
    /\ frames' = Continue(Top, Terminator(Top.block).breakLabel)
    /\ lastCall' = WalkStep("switch-end")
    /\ Others

\* emitPhiVarDecls: variables for the parameters of the non-entry blocks
RECURSIVE emitPhiVarDeclsOf(_, _)
emitPhiVarDeclsOf(s, params) ==
    IF params = <<>> THEN s
    ELSE emitPhiVarDeclsOf(
            Emit(Emit(s, <<"T", " ", Head(params)>>), <<";", "\n">>),
            Tail(params))

RECURSIVE emitPhiVarDeclsFrom(_, _)
emitPhiVarDeclsFrom(s, order) ==
    IF order = <<>> THEN s
    ELSE emitPhiVarDeclsFrom(emitPhiVarDeclsOf(s, Block(Head(order)).params),
                             Tail(order))

emitPhiVarDecls(s) ==
    IF func.order = <<>> THEN s ELSE emitPhiVarDeclsFrom(s, Tail(func.order))

FuncFrame(pc) ==
    [ begin |-> NULL, end |-> NULL, block |-> NULL, labels |-> <<>>,
      useLabels |-> <<>>, pc |-> pc, caseIndex |-> 0,
      defaultLabelHandled |-> FALSE ]

\* emitIRSimpleFunc, the body of a definition: { ...
EmitIRSimpleFunc ==
    /\ AtPc("func")
    /\ shared' = emitPhiVarDecls(indent(Emit(shared, <<"\n", "{", "\n">>)))
    /\ frames' = Call(FuncFrame("func-body"),
                      NewFrame(Head(func.order), NULL, <<>>, <<>>))
    /\ lastCall' = [op |-> "func"]
    /\ Others

\* ... }
AfterFuncBody ==
    /\ AtPc("func-body")
    /\ shared' = Emit(dedent(shared), <<"}", "\n">>)
    /\ frames' = <<FuncFrame("func-done")>>
    /\ lastCall' = [op |-> "func-body"]
    /\ Others

----------------------------------------------------------------------------
(* Specification of source-location tracking *)

Texts == { <<"x">>, <<"\n">>, <<"x", "\n", "y">> }

InitLine ==
    /\ \E mode \in LineDirectiveModes, need \in BOOLEAN :
          /\ compileRequest = [lineDirectiveMode |-> mode]
          /\ shared = SharedEmitContext("HLSL", "HLSL", need)
    /\ lastCall = NoCall
    /\ emitCount = 0
    /\ callLog = <<>>
    /\ func = NoFunc
    /\ frames = <<>>
    /\ context = NoContext
    /\ pipeline = NoPipeline

AdvanceToSourceLocation ==
    \E l \in Locs :
        /\ ~shared.fault
        /\ shared' = advanceToSourceLocation(shared, l)
        /\ lastCall' = [op |-> "advance",
                        arg |-> IF l.line <= 0 THEN NoLoc ELSE l]
        /\ UNCHANGED <<compileRequest, emitCount, callLog, func, frames, context, pipeline>>

EmitText ==
    \E text \in Texts :
        /\ ~shared.fault
        /\ emitCount < MaxEmits
        /\ shared' = Emit(shared, text)
        /\ lastCall' =
             [op |-> "emit", arg |-> text,
              need |-> shared.needToUpdateSourceLocation,
              cursor |-> shared.loc,
              req |-> shared.nextSourceLocation,
              flushed |-> Suffix(flushSourceLocationChange(shared).sb,
                                 Len(shared.sb)),
              written |-> Suffix(shared'.sb, Len(shared.sb)),
              synced |-> flushSourceLocationChange(shared).loc,
              asserted |-> ~flushSourceLocationChange(shared).fault]
        /\ emitCount' = emitCount + 1
        /\ UNCHANGED <<compileRequest, callLog, func, frames, context, pipeline>>

NextLine == AdvanceToSourceLocation \/ EmitText

SpecLine == InitLine /\ [][NextLine]_vars

----------------------------------------------------------------------------
(* Struct declarations *)

\* Types of the front end, as far as emitIRUsedType tells them apart
BasicType(name)   == [kind |-> "basic", name |-> name]
ArrayType(base)   == [kind |-> "array", base |-> base]
TextureType(elem) == [kind |-> "texture", base |-> elem]
PtrType(value)    == [kind |-> "ptr", base |-> value]
DeclRefType(decl) == [kind |-> "declRef", decl |-> decl]
VoidType          == BasicType("void")

Field(name, type, isStatic, interp) ==
    [name |-> name, type |-> type, isStatic |-> isStatic, interp |-> interp]

\* The struct declarations of the module being emitted: an aggregate with a
\* nested struct, an array of structs, a static field and a void field; a
\* struct that is built in on the target; a type with a magic modifier.
StructDecls ==
    [ S |-> [builtin |-> FALSE, magic |-> FALSE,
             fields |-> << Field("a", BasicType("float"), FALSE, "nointerpolation"),
                           Field("t", DeclRefType("T"), FALSE, ""),
                           Field("us", ArrayType(DeclRefType("U")), FALSE, ""),
                           Field("s", DeclRefType("V"), TRUE, "") >>],
      T |-> [builtin |-> FALSE, magic |-> FALSE,
             fields |-> << Field("x", BasicType("float"), FALSE, ""),
                           Field("b", DeclRefType("B"), FALSE, ""),
                           Field("v", VoidType, FALSE, "") >>],
      U |-> [builtin |-> FALSE, magic |-> FALSE,
             fields |-> << Field("m", DeclRefType("M"), FALSE, "") >>],
      V |-> [builtin |-> FALSE, magic |-> FALSE,
             fields |-> << Field("y", BasicType("int"), FALSE, "") >>],
      B |-> [builtin |-> TRUE, magic |-> FALSE,
             fields |-> << Field("u", DeclRefType("U"), FALSE, "") >>],
      M |-> [builtin |-> FALSE, magic |-> TRUE,
             fields |-> << Field("z", DeclRefType("V"), FALSE, "") >>] ]

StructNames == DOMAIN StructDecls

\* getMangledName: the key a declaration is remembered under
getMangledName(declRef) == <<"_S", declRef>>

\* the spelling emitIRType gives a field
RECURSIVE TypeText(_)
TypeText(type) ==
    CASE type.kind = "basic" -> <<type.name>>
      [] type.kind = "declRef" -> <<type.decl>>
      [] type.kind = "array" -> TypeText(type.base) \o <<"[]">>
      [] type.kind = "texture" -> <<"Texture<">> \o TypeText(type.base) \o <<">">>
      [] OTHER -> TypeText(type.base) \o <<"*">>

RECURSIVE ensureStructDecl(_, _)
RECURSIVE emitIRUsedType(_, _)

emitIRUsedDeclRef(s, declRef) ==
    IF StructDecls[declRef].magic THEN s
    ELSE ensureStructDecl(s, declRef)

emitIRUsedType(s, type) ==
    CASE type.kind = "basic" -> s
      [] type.kind \in {"array", "texture", "ptr"} -> emitIRUsedType(s, type.base)
      [] type.kind = "declRef" -> emitIRUsedDeclRef(s, type.decl)
      [] OTHER -> s

\* first loop of ensureStructDecl: the types used by the fields
RECURSIVE emitUsedFieldTypes(_, _)
emitUsedFieldTypes_none(s, fields) == s
emitUsedFieldTypes(s, fields) ==
    IF fields = <<>> \/ s.fault THEN s
    ELSE IF Head(fields).isStatic THEN emitUsedFieldTypes(s, Tail(fields))
         ELSE emitUsedFieldTypes(emitIRUsedType(s, Head(fields).type), Tail(fields))

\* second loop of ensureStructDecl: the field declarations
RECURSIVE emitFieldDecls(_, _)
emitFieldDecls(s, fields) ==
    IF fields = <<>> \/ s.fault THEN s
    ELSE LET ff == Head(fields)
             s1 == IF s.target # "GLSL" /\ ff.interp # ""
                   THEN Emit(s, <<ff.interp, " ">>) ELSE s
             s2 == Emit(Emit(s1, TypeText(ff.type) \o <<" ", ff.name>>),
                        <<";", "\n">>)
         IN  IF ff.isStatic \/ ff.type = VoidType
             THEN emitFieldDecls(s, Tail(fields))
             ELSE emitFieldDecls(s2, Tail(fields))

ensureStructDecl_no_visited_check(s, declRef) ==
    LET decl == StructDecls[declRef]
        s2 == emitUsedFieldTypes(s, decl.fields)
        s3 == Emit(Emit(Emit(s2, <<"\n", "struct ">>), <<declRef>>),
                   <<"\n", "{", "\n">>)
        s4 == emitFieldDecls([s3 EXCEPT !.indentLevel = @ + 1], decl.fields)
    IN  IF decl.builtin \/ s2.fault THEN s2
        ELSE IF s3.fault THEN s3
        ELSE Emit([s4 EXCEPT !.indentLevel = @ - 1], <<"};", "\n">>)

ensureStructDecl(s, declRef) ==
    LET mangledName == getMangledName(declRef)
        decl == StructDecls[declRef]
        s1 == [s EXCEPT !.irDeclsVisited = @ \cup {mangledName}]
        s2 == emitUsedFieldTypes(s1, decl.fields)
        s3 == Emit(Emit(Emit(s2, <<"\n", "struct ">>), <<declRef>>),
                   <<"\n", "{", "\n">>)
        s4 == emitFieldDecls([s3 EXCEPT !.indentLevel = @ + 1], decl.fields)
    IN  IF mangledName \in s.irDeclsVisited THEN s
        ELSE IF decl.builtin \/ s2.fault THEN s2
        ELSE IF s3.fault THEN s3
        ELSE Emit([s4 EXCEPT !.indentLevel = @ - 1], <<"};", "\n">>)

----------------------------------------------------------------------------
(* Specification of struct declaration emission *)

\* the types of the values of the module (emitIRUsedTypesForValue)
UsedTypes ==
    { BasicType("float"), DeclRefType("S"), DeclRefType("T"),
      ArrayType(DeclRefType("S")), PtrType(DeclRefType("U")),
      TextureType(DeclRefType("B")), DeclRefType("M") }

InitDecl ==
    /\ \E target \in {"GLSL", "HLSL"} :
          shared = SharedEmitContext(target, target, FALSE)
    /\ compileRequest = [lineDirectiveMode |-> "None"]
    /\ lastCall = NoCall
    /\ emitCount = 0
    /\ callLog = <<>>
    /\ func = NoFunc
    /\ frames = <<>>
    /\ context = NoContext
    /\ pipeline = NoPipeline

EmitIRUsedType ==
    \E type \in UsedTypes :
        /\ Len(callLog) < MaxCalls
        /\ shared' = emitIRUsedType(shared, type)
        /\ lastCall' = [op |-> "emitIRUsedType", arg |-> type, before |-> shared]
        /\ callLog' = Append(callLog, [op |-> "emitIRUsedType", arg |-> type])
        /\ UNCHANGED <<compileRequest, emitCount, func, frames, context, pipeline>>

NextDecl == EmitIRUsedType

SpecDecl == InitDecl /\ [][NextDecl]_vars

----------------------------------------------------------------------------
(* Specification of the extension/version tracker *)

Targets == {"GLSL", "HLSL"}
RequestedVersions == {110, 130, 330, 450, 460}
ExtensionNames == {"GL_A", "GL_B", "GL_C"}

InitTracker ==
    /\ \E target \in Targets :
          shared = SharedEmitContext(target, target, FALSE)
    /\ compileRequest = [lineDirectiveMode |-> "None"]
    /\ lastCall = NoCall
    /\ emitCount = 0
    /\ callLog = <<>>
    /\ func = NoFunc
    /\ frames = <<>>
    /\ context = NoContext
    /\ pipeline = NoPipeline

RequireGLSLVersion ==
    \E version \in RequestedVersions :
        /\ Len(callLog) < MaxCalls
        /\ shared' = requireGLSLVersionInt(shared, version)
        /\ lastCall' = [op |-> "requireGLSLVersion", arg |-> version,
                        before |-> shared.extensionUsageTracker]
        /\ callLog' = Append(callLog, [op |-> "requireGLSLVersion", arg |-> version])
        /\ UNCHANGED <<compileRequest, emitCount, func, frames, context, pipeline>>

RequireGLSLExtension ==
    \E name \in ExtensionNames :
        /\ Len(callLog) < MaxCalls
        /\ shared' = [shared EXCEPT
                         !.extensionUsageTracker = requireGLSLExtension(@, name)]
        /\ lastCall' = [op |-> "requireGLSLExtension", arg |-> name,
                        before |-> shared.extensionUsageTracker]
        /\ callLog' = Append(callLog, [op |-> "requireGLSLExtension", arg |-> name])
        /\ UNCHANGED <<compileRequest, emitCount, func, frames, context, pipeline>>

NextTracker == RequireGLSLVersion \/ RequireGLSLExtension

SpecTracker == InitTracker /\ [][NextTracker]_vars

----------------------------------------------------------------------------
(* The IR functions whose bodies are emitted *)

MaxCases == 3     \* a switch has at most MaxCases cases

SomeLoc == HumaneSourceLoc(<<"a">>, 1, 1)

IRBlock(insts, terminator) ==
    [params |-> <<>>, insts |-> insts, terminator |-> terminator]

IRReturnVoid == [op |-> "ReturnVoid", sourceLoc |-> SomeLoc]
IRReturnVal == [op |-> "ReturnVal", sourceLoc |-> SomeLoc]
IRDiscard == [op |-> "discard", sourceLoc |-> SomeLoc]
IRUnreachable == [op |-> "unreachable", sourceLoc |-> NoLoc]
IRConditionalBranch == [op |-> "conditionalBranch", sourceLoc |-> SomeLoc]
IRUnknownTerminator == [op |-> "unknown", sourceLoc |-> SomeLoc]

IRUnconditionalBranch(targetBlock) ==
    [op |-> "unconditionalBranch", sourceLoc |-> SomeLoc,
     targetBlock |-> targetBlock, args |-> <<>>]

IRIfElse(condition, trueBlock, falseBlock, afterBlock) ==
    [op |-> "ifElse", sourceLoc |-> SomeLoc, condition |-> condition,
     trueBlock |-> trueBlock, falseBlock |-> falseBlock,
     afterBlock |-> afterBlock]

IRLoop(targetBlock, breakBlock, continueBlock, loopControl) ==
    [op |-> "loop", sourceLoc |-> SomeLoc, targetBlock |-> targetBlock,
     breakBlock |-> breakBlock, continueBlock |-> continueBlock,
     args |-> <<>>, loopControl |-> loopControl]

IRSwitch(condition, breakLabel, defaultLabel, cases) ==
    [op |-> "switch", sourceLoc |-> SomeLoc, condition |-> condition,
     breakLabel |-> breakLabel, defaultLabel |-> defaultLabel,
     cases |-> cases]

\* Two nested loops.  The inner body B2 holds `if(c3) <jump>` where the jump
\* goes to the given block, and ends with a branch to the inner header H2 or
\* to the inner continue block K2.
NestedLoopFunc(jump, back) ==
    [ name |-> "nestedLoops",
      order |-> <<"E", "H1", "B1", "H2", "B2", "M", "K2", "X2", "X1">>,
      blocks |->
        [ E  |-> IRBlock(<<"e">>, IRLoop("H1", "X1", "H1", "unroll")),
          H1 |-> IRBlock(<<"h1">>, IRIfElse("c1", "B1", "X1", "B1")),
          B1 |-> IRBlock(<<"b1">>, IRLoop("H2", "X2", "K2", "")),
          H2 |-> IRBlock(<<"h2">>, IRIfElse("c2", "B2", "X2", "B2")),
          B2 |-> IRBlock(<<"b2">>, IRIfElse("c3", jump, "M", "M")),
          M  |-> IRBlock(<<"m">>, IRUnconditionalBranch(back)),
          K2 |-> IRBlock(<<"k2">>, IRUnconditionalBranch("H2")),
          X2 |-> IRBlock(<<"x2">>, IRUnconditionalBranch("H1")),
          X1 |-> IRBlock(<<"x1">>, IRReturnVoid) ] ]

NestedLoopFuncs ==
    { NestedLoopFunc(jump, back) :
        jump \in {"H2", "X2", "K2", "H1", "X1"}, back \in {"H2", "K2"} }

\* A switch on v.  The case table is given by the target blocks of the
\* cases; case i has the value i.  C1 ends with a `break` or falls through
\* to C2; C2 breaks, C3 returns, D is a default block of its own.
SwitchFunc(labels, defaultLabel, c1Target) ==
    [ name |-> "switch",
      order |-> <<"E", "C1", "C2", "C3", "D", "J">>,
      blocks |->
        [ E  |-> IRBlock(<<"e">>,
                   IRSwitch("v", "J", defaultLabel,
                            [i \in DOMAIN labels |->
                                [value |-> Digits(i)[1], label |-> labels[i]]])),
          C1 |-> IRBlock(<<"c1">>, IRUnconditionalBranch(c1Target)),
          C2 |-> IRBlock(<<"c2">>, IRUnconditionalBranch("J")),
          C3 |-> IRBlock(<<"c3">>, IRReturnVal),
          D  |-> IRBlock(<<"d">>, IRUnconditionalBranch("J")),
          J  |-> IRBlock(<<"j">>, IRReturnVoid) ] ]

\* The IR generator orders the cases of a switch so that the cases with the
\* same label are consecutive ...
CasesGrouped(labels) ==
    \A i, j \in DOMAIN labels :
        (i < j /\ labels[i] = labels[j]) =>
            \A k \in i..j : labels[k] = labels[i]

\* ... and a case that falls through to another comes right before it.
FallsThroughToNext(labels, c1Target) ==
    \/ c1Target = "J"
    \/ \E i \in 1..(Len(labels) - 1) :
          /\ labels[i] = "C1" /\ labels[i + 1] = c1Target
          /\ \A k \in DOMAIN labels : labels[k] = c1Target => k > i

CaseTables ==
    { labels \in UNION { [1..n -> {"C1", "C2", "C3"}] : n \in 0..MaxCases } :
        CasesGrouped(labels) }

SwitchFuncs ==
    { SwitchFunc(x[1], x[2], x[3]) :
        x \in { y \in CaseTables \X {"J", "D", "C2"} \X {"J", "C2"} :
                    FallsThroughToNext(y[1], y[3]) } }

\* An `if` whose true block ends in each kind of terminator, with and
\* without an else part.
IfFunc(terminator, falseBlock) ==
    [ name |-> "if",
      order |-> <<"E", "T", "F", "A">>,
      blocks |->
        [ E |-> IRBlock(<<"e">>, IRIfElse("c", "T", falseBlock, "A")),
          T |-> IRBlock(<<"t">>, terminator),
          F |-> IRBlock(<<"f">>, IRUnconditionalBranch("A")),
          A |-> IRBlock(<<"a">>, IRReturnVoid) ] ]

IfFuncs ==
    { IfFunc(terminator, falseBlock) :
        terminator \in { IRUnconditionalBranch("A"), IRReturnVal, IRDiscard,
                         IRUnreachable, IRConditionalBranch,
                         IRUnknownTerminator },
        falseBlock \in {"F", "A"} }

\* A single block holding an instruction of an opcode without a case.
UnhandledInstFunc ==
    [ name |-> "unhandled",
      order |-> <<"E">>,
      blocks |-> [ E |-> IRBlock(<<"e", UnhandledInst, "a">>, IRReturnVoid) ] ]

\* Two blocks that branch to each other and are not the target block of a
\* loop instruction: E -> B -> C -> B.
BranchCycleFunc ==
    [ name |-> "cycle",
      order |-> <<"E", "B", "C">>,
      blocks |->
        [ E |-> IRBlock(<<"e">>, IRUnconditionalBranch("B")),
          B |-> IRBlock(<<>>, IRUnconditionalBranch("C")),
          C |-> IRBlock(<<>>, IRUnconditionalBranch("B")) ] ]

\* A loop whose header H has the parameters p1 and p2: the loop instruction
\* passes x and y, the branch back from the body passes branchArgs.
PhiParams == <<"p1", "p2">>

PhiLoopFunc(branchArgs) ==
    [ name |-> "phi",
      order |-> <<"E", "H", "B", "X">>,
      blocks |->
        [ E |-> IRBlock(<<"e">>,
                        [IRLoop("H", "X", "H", "") EXCEPT !.args = <<"x", "y">>]),
          H |-> [IRBlock(<<"h">>, IRIfElse("c", "B", "X", "B"))
                    EXCEPT !.params = PhiParams],
          B |-> IRBlock(<<"b">>,
                        [IRUnconditionalBranch("H") EXCEPT !.args = branchArgs]),
          X |-> IRBlock(<<"x">>, IRReturnVoid) ] ]

PhiLoopFuncs ==
    { PhiLoopFunc(branchArgs) : branchArgs \in [1..2 -> {"p1", "p2", "b"}] }

Funcs ==
    NestedLoopFuncs \cup SwitchFuncs \cup IfFuncs \cup PhiLoopFuncs
        \cup {UnhandledInstFunc, BranchCycleFunc}

----------------------------------------------------------------------------
(* Specification of the emission of a function body *)

InitWalk ==
    /\ \E target \in Targets : shared = SharedEmitContext(target, target, FALSE)
    /\ compileRequest = [lineDirectiveMode |-> "None"]
    /\ lastCall = NoCall
    /\ emitCount = 0
    /\ callLog = <<>>
    /\ func \in Funcs
    /\ frames = <<FuncFrame("func")>>
    /\ context = NoContext
    /\ pipeline = NoPipeline

NextWalk ==
    \/ EmitIRSimpleFunc \/ AfterFuncBody
    \/ WalkReachEnd \/ WalkLabel
    \/ WalkUnreachable \/ WalkReturn \/ WalkUnexpected
    \/ WalkUnconditionalBranch
    \/ WalkIfElse \/ AfterTrueBlock \/ AfterFalseBlock
    \/ WalkLoop \/ AfterLoopBody
    \/ WalkSwitch \/ SwitchCase \/ AfterCaseBody
    \/ SwitchDefault \/ AfterDefaultBody \/ SwitchEnd

SpecWalk == InitWalk /\ [][NextWalk]_vars

\* The walk is one sequential call: a step that can be taken is taken.
SpecWalkFair == SpecWalk /\ WF_vars(NextWalk)

----------------------------------------------------------------------------
(* Type legalization: the memo table of one legalization run.  legalizeType *)
(* is declared in legalize-types.h; its body here is the memoized recursive *)
(* classification the declaration's context is built for.                   *)

\* a LegalType: its flavor, the object it refers to (0: none) and, for a
\* simple type, the IR type
LegalType(flavor, obj, irType) ==
    [flavor |-> flavor, obj |-> obj, irType |-> irType]

\* the structs of the module being legalized: all fields ordinary; all
\* fields special; mixed; mixed through a nested struct
LegalizedStructs ==
    [ P |-> << Field("x", BasicType("int"), FALSE, ""),
               Field("y", BasicType("int"), FALSE, "") >>,
      R |-> << Field("t", TextureType(BasicType("float")), FALSE, "") >>,
      Q |-> << Field("a", BasicType("int"), FALSE, ""),
               Field("t", TextureType(BasicType("float")), FALSE, ""),
               Field("p", DeclRefType("P"), FALSE, "") >>,
      N |-> << Field("q", DeclRefType("Q"), FALSE, ""),
               Field("z", BasicType("int"), FALSE, "") >> ]

LegalizedTypes ==
    { VoidType, BasicType("int"), TextureType(BasicType("float")),
      DeclRefType("P"), DeclRefType("R"), DeclRefType("Q"), DeclRefType("N"),
      PtrType(DeclRefType("P")), PtrType(DeclRefType("Q")) }

IRTypeLegalizationContext ==
    [ name |-> "IRTypeLegalizationContext",
      mapTypeToLegalType |-> <<>>,
      objects |-> <<>> ]

\* a type that may not be a field of an aggregate on the target
isSpecialType(type) == type.kind = "texture"

\* a new pseudo-type object; its identity is its place in the heap
newObject(ctx, obj) == [ctx EXCEPT !.objects = Append(@, obj)]

mapTypeToLegalType_TryGetValue_miss(ctx, type) == FALSE

mapTypeToLegalType_TryGetValue(ctx, type) ==
    type \in DOMAIN ctx.mapTypeToLegalType

isSpecialField(type, legal) ==
    isSpecialType(type) \/ legal.flavor \notin {"simple", "none"}

RECURSIVE legalizeType(_, _)
RECURSIVE legalizeTypeImpl(_, _)
RECURSIVE legalizeFields(_, _, _)

\* the legal types of the fields, in order, each through the memo table
legalizeFields(ctx, fields, done) ==
    IF fields = <<>> THEN [ctx |-> ctx, result |-> done]
    ELSE LET r == legalizeType(ctx, Head(fields).type)
         IN  legalizeFields(r.ctx, Tail(fields),
                 Append(done, [key |-> Head(fields).name,
                               type |-> r.result,
                               special |-> isSpecialField(Head(fields).type,
                                                          r.result)]))

legalizeTypeImpl(ctx, type) ==
    CASE type = VoidType ->
            [ctx |-> ctx, result |-> LegalType("none", 0, NULL)]
      [] type.kind = "ptr" ->
            LET r == legalizeType(ctx, type.base)
            IN  IF r.result.flavor = "simple"
                THEN [ctx |-> r.ctx, result |-> LegalType("simple", 0, type)]
                ELSE [ctx |-> newObject(r.ctx, [valueType |-> r.result]),
                      result |-> LegalType("implicitDeref",
                                           Len(r.ctx.objects) + 1, NULL)]
      [] type.kind = "declRef" ->
            LET r == legalizeFields(ctx, LegalizedStructs[type.decl], <<>>)
                special == SelectSeq(r.result, LAMBDA e : e.special)
                ordinary == SelectSeq(r.result, LAMBDA e : ~e.special)
                tupleCtx == newObject(r.ctx, [elements |-> special])
                tupleType == LegalType("tuple", Len(r.ctx.objects) + 1, NULL)
            IN  IF special = <<>>
                THEN [ctx |-> r.ctx, result |-> LegalType("simple", 0, type)]
                ELSE IF ordinary = <<>>
                THEN [ctx |-> tupleCtx, result |-> tupleType]
                ELSE [ctx |-> newObject(tupleCtx,
                                 [ordinaryType |-> LegalType("simple", 0, type),
                                  specialType |-> tupleType,
                                  pairInfo |-> [i \in DOMAIN r.result |->
                                                  [key |-> r.result[i].key,
                                                   special |-> r.result[i].special]]]),
                      result |-> LegalType("pair", Len(r.ctx.objects) + 2, NULL)]
      [] OTHER -> [ctx |-> ctx, result |-> LegalType("simple", 0, type)]

legalizeType(ctx, type) ==
    IF mapTypeToLegalType_TryGetValue(ctx, type)
    THEN [ctx |-> ctx, result |-> ctx.mapTypeToLegalType[type]]
    ELSE LET r == legalizeTypeImpl(ctx, type)
         IN  [ctx |-> [r.ctx EXCEPT !.mapTypeToLegalType = (type :> r.result) @@ @],
              result |-> r.result]

InitLegalize ==
    /\ \E target \in Targets : shared = SharedEmitContext(target, target, FALSE)
    /\ compileRequest = [lineDirectiveMode |-> "None"]
    /\ lastCall = NoCall
    /\ emitCount = 0
    /\ callLog = <<>>
    /\ func = NoFunc
    /\ frames = <<>>
    /\ context = IRTypeLegalizationContext
    /\ pipeline = NoPipeline

LegalizeType ==
    \E type \in LegalizedTypes :
        /\ Len(callLog) < MaxCalls
        /\ LET r == legalizeType(context, type)
           IN  /\ context' = r.ctx
               /\ lastCall' = [op |-> "legalizeType", arg |-> type,
                               result |-> r.result, before |-> context]
               /\ callLog' = Append(callLog,
                                [op |-> "legalizeType", arg |-> type,
                                 result |-> r.result,
                                 objects |-> r.ctx.objects])
        /\ UNCHANGED <<shared, compileRequest, emitCount, func, frames, pipeline>>

NextLegalize == LegalizeType

SpecLegalize == InitLegalize /\ [][NextLegalize]_vars

----------------------------------------------------------------------------
(* The drivers of the pass pipelines: lowerGenerics and emitEntryPoint *)

\* what one pass leaves in the diagnostic sink: nothing, a warning, an error
Reports == { <<>>, <<"warning">>, <<"error">> }

\* DiagnosticSink::getErrorCount
getErrorCount(sink) == Cardinality({i \in DOMAIN sink : sink[i] = "error"})

Pipeline(name, pc) == [name |-> name, pc |-> pc, ran |-> <<>>, sink |-> <<>>]

\* One pass of a driver: it runs at the position pc, may report through the
\* sink when it is handed one, and the driver goes on at pcNext, or at
\* pcOnError when it looks at the error count after this pass and finds it
\* nonzero.
RunPass(name, pass, pc, reports, pcNext, pcOnError) ==
    /\ pipeline.name = name
    /\ pipeline.pc = pc
    /\ \E report \in (IF reports THEN Reports ELSE {<<>>}) :
          LET sink == pipeline.sink \o report
          IN  pipeline' =
                [pipeline EXCEPT
                    !.sink = sink,
                    !.ran = Append(@, [pass |-> pass,
                                       errorCount |-> getErrorCount(sink)]),
                    !.pc = IF getErrorCount(sink) # 0 THEN pcOnError ELSE pcNext]
    /\ lastCall' = [op |-> pass]
    /\ UNCHANGED <<shared, compileRequest, emitCount, callLog, func, frames, context>>

LowerGenericsPass(pass, pc, reports, pcNext, pcOnError) ==
    RunPass("lowerGenerics", pass, pc, reports, pcNext, pcOnError)

AugmentMakeExistentialInsts ==
    LowerGenericsPass("augmentMakeExistentialInsts", "start", FALSE,
                      "lowerGenericFunctions", "lowerGenericFunctions")

LowerGenericFunctions ==
    LowerGenericsPass("lowerGenericFunctions", "lowerGenericFunctions", TRUE,
                      "lowerGenericType", "return")

LowerGenericType ==
    LowerGenericsPass("lowerGenericType", "lowerGenericType", TRUE,
                      "lowerExistentials", "return")

LowerExistentials ==
    LowerGenericsPass("lowerExistentials", "lowerExistentials", TRUE,
                      "lowerGenericCalls", "return")

LowerGenericCalls ==
    LowerGenericsPass("lowerGenericCalls", "lowerGenericCalls", TRUE,
                      "generateWitnessTableWrapperFunctions", "return")

GenerateWitnessTableWrapperFunctions ==
    LowerGenericsPass("generateWitnessTableWrapperFunctions",
                      "generateWitnessTableWrapperFunctions", TRUE,
                      "generateAnyValueMarshallingFunctions", "return")

GenerateAnyValueMarshallingFunctions ==
    LowerGenericsPass("generateAnyValueMarshallingFunctions",
                      "generateAnyValueMarshallingFunctions", TRUE,
                      "specializeDispatchFunctions", "return")

\* specializeRTTIObjects: its early returns lead back into lowerGenerics
SpecializeDispatchFunctions ==
    LowerGenericsPass("specializeDispatchFunctions",
                      "specializeDispatchFunctions", TRUE,
                      "specializeDynamicAssociatedTypeLookup", "constructSSA")

SpecializeDynamicAssociatedTypeLookup ==
    LowerGenericsPass("specializeDynamicAssociatedTypeLookup",
                      "specializeDynamicAssociatedTypeLookup", TRUE,
                      "specializeRTTIObjectReferences", "constructSSA")

SpecializeRTTIObjectReferences ==
    LowerGenericsPass("specializeRTTIObjectReferences",
                      "specializeRTTIObjectReferences", TRUE,
                      "cleanUpRTTIHandleTypes", "cleanUpRTTIHandleTypes")

CleanUpRTTIHandleTypes ==
    LowerGenericsPass("cleanUpRTTIHandleTypes", "cleanUpRTTIHandleTypes", TRUE,
                      "cleanUpInterfaceTypes", "cleanUpInterfaceTypes")

CleanUpInterfaceTypes ==
    LowerGenericsPass("cleanUpInterfaceTypes", "cleanUpInterfaceTypes", TRUE,
                      "constructSSA", "constructSSA")

LowerGenericsConstructSSA ==
    LowerGenericsPass("constructSSA", "constructSSA", FALSE,
                      "eliminateDeadCode", "eliminateDeadCode")

EliminateDeadCode ==
    LowerGenericsPass("eliminateDeadCode", "eliminateDeadCode", FALSE,
                      "return", "return")

InitLowerGenerics ==
    /\ \E target \in Targets : shared = SharedEmitContext(target, target, FALSE)
    /\ compileRequest = [lineDirectiveMode |-> "None"]
    /\ lastCall = NoCall
    /\ emitCount = 0
    /\ callLog = <<>>
    /\ func = NoFunc
    /\ frames = <<>>
    /\ context = NoContext
    /\ pipeline = Pipeline("lowerGenerics", "start")

NextLowerGenerics ==
    \/ AugmentMakeExistentialInsts
    \/ LowerGenericFunctions \/ LowerGenericType \/ LowerExistentials
    \/ LowerGenericCalls \/ GenerateWitnessTableWrapperFunctions
    \/ GenerateAnyValueMarshallingFunctions
    \/ SpecializeDispatchFunctions \/ SpecializeDynamicAssociatedTypeLookup
    \/ SpecializeRTTIObjectReferences \/ CleanUpRTTIHandleTypes
    \/ CleanUpInterfaceTypes
    \/ LowerGenericsConstructSSA \/ EliminateDeadCode

SpecLowerGenerics == InitLowerGenerics /\ [][NextLowerGenerics]_vars

\* emitEntryPoint: the passes run one after the other; the driver never
\* looks at the sink
EmitEntryPointPass(pass, pc, reports, pcNext) ==
    RunPass("emitEntryPoint", pass, pc, reports, pcNext, pcNext)

SpecializeIRForEntryPoint ==
    EmitEntryPointPass("specializeIRForEntryPoint", "start", TRUE,
                       "validateIRModuleIfEnabled")

ValidateSpecializedIR ==
    EmitEntryPointPass("validateIRModuleIfEnabled", "validateIRModuleIfEnabled",
                       compileRequest.shouldValidateIR,
                       IF compileRequest.shouldDumpIR
                       THEN "dumpIR" ELSE "specializeGenerics")

DumpIR ==
    EmitEntryPointPass("dumpIR", "dumpIR", FALSE, "specializeGenerics")

SpecializeGenerics ==
    EmitEntryPointPass("specializeGenerics", "specializeGenerics", TRUE,
                       "legalizeTypes")

LegalizeTypes ==
    EmitEntryPointPass("legalizeTypes", "legalizeTypes", TRUE, "constructSSA")

EmitEntryPointConstructSSA ==
    EmitEntryPointPass("constructSSA", "constructSSA", FALSE,
                       "validateLegalizedIR")

ValidateLegalizedIR ==
    EmitEntryPointPass("validateIRModuleIfEnabled", "validateLegalizedIR",
                       compileRequest.shouldValidateIR, "emitIRModule")

EmitIRModule ==
    EmitEntryPointPass("emitIRModule", "emitIRModule", FALSE, "return")

InitEmitEntryPoint ==
    /\ \E target \in Targets : shared = SharedEmitContext(target, target, FALSE)
    /\ \E dump \in BOOLEAN, validate \in BOOLEAN :
          compileRequest = [lineDirectiveMode |-> "None",
                            shouldDumpIR |-> dump,
                            shouldValidateIR |-> validate]
    /\ lastCall = NoCall
    /\ emitCount = 0
    /\ callLog = <<>>
    /\ func = NoFunc
    /\ frames = <<>>
    /\ context = NoContext
    /\ pipeline = Pipeline("emitEntryPoint", "start")

NextEmitEntryPoint ==
    \/ SpecializeIRForEntryPoint \/ ValidateSpecializedIR \/ DumpIR
    \/ SpecializeGenerics \/ LegalizeTypes \/ EmitEntryPointConstructSSA
    \/ ValidateLegalizedIR \/ EmitIRModule

SpecEmitEntryPoint == InitEmitEntryPoint /\ [][NextEmitEntryPoint]_vars

----------------------------------------------------------------------------
(* specializeRTTIObjectReferences: RTTI objects become integer IDs *)

MaxRTTIObjects == 3   \* mapTypeToRTTIObject holds at most MaxRTTIObjects entries

UserOps == {"getAddr", "lookup"}

\* an RTTI object of the module and the instructions that use it; a user
\* whose uses were replaced remembers the integer that replaced them
RTTIObject(type, userOps) ==
    [type |-> type,
     uses |-> [i \in DOMAIN userOps |-> [op |-> userOps[i], replacedWith |-> NULL]]]

SharedGenericsLoweringContext(mapTypeToRTTIObject) ==
    [name |-> "SharedGenericsLoweringContext",
     mapTypeToRTTIObject |-> mapTypeToRTTIObject,
     done |-> FALSE]

\* the inner loop: the uses of every getAddr user are replaced by idOperand
replaceRTTIUses(rtti, idOperand) ==
    [rtti EXCEPT !.uses =
        [i \in DOMAIN @ |->
            IF @[i].op = "getAddr"
            THEN [@[i] EXCEPT !.replacedWith = idOperand] ELSE @[i]]]

\* the loop over mapTypeToRTTIObject; the body reads id and does not change it
RECURSIVE specializeRTTIObjectReferencesFrom(_, _, _)
specializeRTTIObjectReferencesFrom(objects, index, id) ==
    IF index > Len(objects) THEN objects
    ELSE specializeRTTIObjectReferencesFrom(
            [objects EXCEPT ![index] = replaceRTTIUses(@, id)], index + 1, id)

specializeRTTIObjectReferences(sharedContext) ==
    [sharedContext EXCEPT
        !.mapTypeToRTTIObject = specializeRTTIObjectReferencesFrom(@, 1, 0),
        !.done = TRUE]

RTTIModules ==
    UNION { [1..n -> { RTTIObject(<<"T">>, userOps) :
                          userOps \in [1..2 -> UserOps] }]
            : n \in 1..MaxRTTIObjects }

InitRTTI ==
    /\ \E target \in Targets : shared = SharedEmitContext(target, target, FALSE)
    /\ compileRequest = [lineDirectiveMode |-> "None"]
    /\ lastCall = NoCall
    /\ emitCount = 0
    /\ callLog = <<>>
    /\ func = NoFunc
    /\ frames = <<>>
    /\ \E objects \in RTTIModules :
          context = SharedGenericsLoweringContext(
                        [i \in DOMAIN objects |->
                            [objects[i] EXCEPT !.type = <<"T", i>>]])
    /\ pipeline = NoPipeline

SpecializeRTTIObjectReferencesPass ==
    /\ context.name = "SharedGenericsLoweringContext"
    /\ ~context.done
    /\ context' = specializeRTTIObjectReferences(context)
    /\ lastCall' = [op |-> "specializeRTTIObjectReferences", before |-> context]
    /\ UNCHANGED <<shared, compileRequest, emitCount, callLog, func, frames, pipeline>>

NextRTTI == SpecializeRTTIObjectReferencesPass

SpecRTTI == InitRTTI /\ [][NextRTTI]_vars

----------------------------------------------------------------------------
(* emitIRModule: used types, forward declarations, global instructions *)

MaxGlobals == 3   \* a module holds at most MaxGlobals global instructions

\* the single block of the code of a global value: its ordinary instruction
\* and a return
GlobalCode(name, terminator) ==
    [ name |-> name, order |-> <<"E">>,
      blocks |-> [ E |-> [params |-> <<>>, insts |-> <<name>>,
                          terminator |-> terminator] ] ]

\* an IRFunc: a definition has code; an entry point has a layout decoration
\* (of the vertex stage, for which no attributes are emitted)
IRFunc(name, generic, definition, entryPoint, resultType, instType) ==
    [ op |-> "Func", name |-> name, generic |-> generic,
      definition |-> definition, entryPoint |-> entryPoint,
      resultType |-> resultType, instTypes |-> <<instType>>,
      code |-> GlobalCode(name, IRReturnVoid) ]

\* an IRGlobalVar or IRGlobalConstant without a layout; hasCode: it has an
\* initializer
IRGlobal(op, name, type, hasCode) ==
    [ op |-> op, name |-> name, type |-> type, hasCode |-> hasCode,
      instTypes |-> <<type>>,
      code |-> GlobalCode(name, IRReturnVal) ]

GlobalInsts ==
    { IRFunc("f", x[1], x[2], x[3], BasicType("float"), DeclRefType("V")) :
        x \in { <<FALSE, TRUE, FALSE>>, <<TRUE, TRUE, FALSE>>,
                <<FALSE, FALSE, FALSE>>, <<FALSE, TRUE, TRUE>> } }
    \cup { IRFunc("g", FALSE, TRUE, FALSE, BasicType("float"), DeclRefType("T")) }
    \cup { IRGlobal("global_var", "v", BasicType("float"), TRUE),
           IRGlobal("global_var", "v", ArrayType(DeclRefType("S")), FALSE) }
    \cup { IRGlobal("global_constant", "c", BasicType("int"), TRUE),
           [op |-> "StructKey", name |-> "k", type |-> BasicType("int")] }

IRModules ==
    { module \in UNION { [1..n -> GlobalInsts] : n \in 1..MaxGlobals } :
        \A i, j \in DOMAIN module :
            module[i].name = module[j].name => i = j }

isDefinition(irFunc) == irFunc.definition
isTargetIntrinsic(irFunc) == ~isDefinition(irFunc)
asEntryPoint(irFunc) == irFunc.entryPoint

getIRFuncName(s, irFunc) ==
    IF asEntryPoint(irFunc)
    THEN (IF s.target # "GLSL" THEN irFunc.name ELSE "main")
    ELSE irFunc.name

emitIRType(s, type, name) == Emit(s, TypeText(type) \o <<" ", name>>)

\* emitIRUsedTypesForGlobalValueWithCode: the types of the instructions
RECURSIVE emitIRUsedTypes(_, _)
emitIRUsedTypes(s, types) ==
    IF types = <<>> \/ s.fault THEN s
    ELSE emitIRUsedTypes(emitIRUsedType(s, Head(types)), Tail(types))

emitIRUsedTypesForValue(s, value) ==
    CASE value.op = "Func" ->
            IF value.generic THEN s
            ELSE emitIRUsedTypes(emitIRUsedType(s, value.resultType),
                                 IF value.definition THEN value.instTypes
                                 ELSE <<>>)
      [] value.op \in {"global_var", "global_constant"} ->
            emitIRUsedTypes(emitIRUsedType(s, value.type),
                            IF value.hasCode THEN value.instTypes ELSE <<>>)
      [] OTHER -> emitIRUsedType(s, value.type)

RECURSIVE emitIRUsedTypesForModule(_, _)
emitIRUsedTypesForModule(s, module) ==
    IF module = <<>> \/ s.fault THEN s
    ELSE emitIRUsedTypesForModule(emitIRUsedTypesForValue(s, Head(module)),
                                  Tail(module))

\* the entry point needs attributes a forward declaration would lack
skipsEntryPointDecl_never(irFunc) == FALSE
skipsEntryPointDecl(irFunc) == asEntryPoint(irFunc)

\* emitIRFuncDecl: a declaration built from the type of the function
emitIRFuncDecl(s, irFunc) ==
    IF irFunc.generic THEN s
    ELSE IF isTargetIntrinsic(irFunc) THEN s
    ELSE IF skipsEntryPointDecl(irFunc) THEN s
    ELSE Emit(Emit(emitIRType(s, irFunc.resultType, getIRFuncName(s, irFunc)),
                   <<"(">>), <<");", "\n">>)

\* the second loop of emitIRModule
RECURSIVE emitIRFuncDecls(_, _)
emitIRFuncDecls(s, module) ==
    IF module = <<>> THEN s
    ELSE emitIRFuncDecls(IF Head(module).op # "Func" THEN s
                         ELSE emitIRFuncDecl(s, Head(module)),
                         Tail(module))

EmitIRModuleContext(module) ==
    [name |-> "emitIRModule", module |-> module, pc |-> "usedTypes", index |-> 0]

InitModule ==
    /\ \E target \in Targets : shared = SharedEmitContext(target, target, FALSE)
    /\ compileRequest = [lineDirectiveMode |-> "None"]
    /\ lastCall = NoCall
    /\ emitCount = 0
    /\ callLog = <<>>
    /\ func = NoFunc
    /\ frames = <<>>
    /\ \E module \in IRModules : context = EmitIRModuleContext(module)
    /\ pipeline = NoPipeline

ModuleOthers == UNCHANGED <<compileRequest, emitCount, callLog, pipeline>>

EmitIRUsedTypesForModule ==
    /\ context.name = "emitIRModule" /\ context.pc = "usedTypes"
    /\ shared' = emitIRUsedTypesForModule(shared, context.module)
    /\ context' = [context EXCEPT !.pc = "funcDecls"]
    /\ lastCall' = [op |-> "emitIRUsedTypesForModule"]
    /\ UNCHANGED <<func, frames>> /\ ModuleOthers

EmitIRFuncDecls ==
    /\ context.name = "emitIRModule" /\ context.pc = "funcDecls"
    /\ shared' = emitIRFuncDecls(shared, context.module)
    /\ context' = [context EXCEPT !.pc = "globals"]
    /\ lastCall' = [op |-> "emitIRFuncDecls", before |-> shared]
    /\ UNCHANGED <<func, frames>> /\ ModuleOthers

\* the third loop is at a global instruction of one of the given ops
AtGlobalInst(ops) ==
    /\ context.name = "emitIRModule" /\ context.pc = "globals"
    /\ ~shared.fault
    /\ frames \in {<<>>, <<FuncFrame("func-done")>>}
    /\ context.index < Len(context.module)
    /\ context.module[context.index + 1].op \in ops

NextGlobalInst == [context EXCEPT !.index = @ + 1]

\* emitIRFunc: nothing for a generic or an intrinsic, else the header of
\* emitIRSimpleFunc, whose body follows
EmitIRFunc ==
    /\ AtGlobalInst({"Func"})
    /\ LET irFunc == context.module[context.index + 1]
       IN  IF irFunc.generic \/ ~isDefinition(irFunc)
           THEN UNCHANGED <<shared, func>> /\ frames' = <<>>
           ELSE /\ shared' = Emit(Emit(emitIRType(Emit(shared, <<"\n">>),
                                                  irFunc.resultType,
                                                  getIRFuncName(shared, irFunc)),
                                       <<"(">>), <<")">>)
                /\ func' = irFunc.code
                /\ frames' = <<FuncFrame("func")>>
    /\ context' = NextGlobalInst
    /\ lastCall' = [op |-> "emitIRFunc", before |-> shared]
    /\ ModuleOthers

\* emitIRGlobalVar: the initializer becomes a function NAME_init
EmitIRGlobalVar ==
    /\ AtGlobalInst({"global_var"})
    /\ LET varDecl == context.module[context.index + 1]
       IN  IF varDecl.hasCode
           THEN /\ shared' = indent(Emit(emitIRType(Emit(shared, <<"\n">>),
                                                    varDecl.type,
                                                    varDecl.name),
                                         <<"_init", "()", "\n", "{", "\n">>))
                /\ func' = varDecl.code
                /\ frames' = <<FuncFrame("global-var-init"),
                               NewFrame(Head(varDecl.code.order), NULL, <<>>, <<>>)>>
                /\ UNCHANGED context
           ELSE /\ shared' = Emit(emitIRType(
                                    IF shared.target = "HLSL"
                                    THEN Emit(shared, <<"static ">>) ELSE shared,
                                    varDecl.type, varDecl.name),
                                  <<";", "\n">>)
                /\ frames' = <<>>
                /\ context' = NextGlobalInst
                /\ UNCHANGED func
    /\ lastCall' = [op |-> "emitIRGlobalVar", before |-> shared]
    /\ ModuleOthers

\* ... } and the variable itself, initialized by a call of NAME_init
AfterGlobalVarInit ==
    /\ AtPc("global-var-init")
    /\ LET varDecl == context.module[context.index + 1]
       IN  shared' =
             Emit(Emit(Emit(Emit(emitIRType(
                    With(Emit(dedent(shared), <<"}", "\n">>),
                         LAMBDA s1 : IF s1.target = "HLSL"
                                     THEN Emit(s1, <<"static ">>) ELSE s1),
                    varDecl.type, varDecl.name),
                  <<" = ">>), <<varDecl.name, "_init">>), <<"()">>),
                  <<";", "\n">>)
    /\ frames' = <<>>
    /\ context' = NextGlobalInst
    /\ lastCall' = [op |-> "emitIRGlobalVar-init", before |-> shared]
    /\ UNCHANGED func /\ ModuleOthers

\* emitIRGlobalConstant: the initializer is a single expression
EmitIRGlobalConstant ==
    /\ AtGlobalInst({"global_constant"})
    /\ LET valDecl == context.module[context.index + 1]
       IN  shared' =
             Emit(With(emitIRType(
                         Emit(IF shared.target # "GLSL"
                              THEN Emit(shared, <<"static ">>) ELSE shared,
                              <<"const ">>),
                         valDecl.type, valDecl.name),
                       LAMBDA s1 : IF valDecl.hasCode
                                   THEN Emit(Emit(s1, <<" = ">>),
                                             <<valDecl.code.name>>)
                                   ELSE s1),
                  <<";", "\n">>)
    /\ frames' = <<>>
    /\ context' = NextGlobalInst
    /\ lastCall' = [op |-> "emitIRGlobalConstant", before |-> shared]
    /\ UNCHANGED func /\ ModuleOthers

\* any other global instruction emits nothing
EmitIROtherGlobalInst ==
    /\ AtGlobalInst({"StructKey"})
    /\ context' = NextGlobalInst
    /\ frames' = <<>>
    /\ lastCall' = [op |-> "emitIRGlobalInst", before |-> shared]
    /\ UNCHANGED <<shared, func>> /\ ModuleOthers

NextModule ==
    \/ EmitIRUsedTypesForModule \/ EmitIRFuncDecls
    \/ EmitIRFunc \/ EmitIRGlobalVar \/ AfterGlobalVarInit
    \/ EmitIRGlobalConstant \/ EmitIROtherGlobalInst
    \/ EmitIRSimpleFunc \/ AfterFuncBody \/ WalkReturn

SpecModule == InitModule /\ [][NextModule]_vars

----------------------------------------------------------------------------
(* HLSL register semantics of a chain of variable layouts *)

MaxChain == 2   \* an EmitVarChain has up to MaxChain records
MaxIndex == 1   \* register indices are 0..MaxIndex
MaxSpace == 1   \* register spaces are 0..MaxSpace

\* byte offsets of uniform data, on and off the 4-byte components
UniformOffsets == {0, 4, 6, 28}

ResourceInfo(kind, index, space) == [kind |-> kind, index |-> index, space |-> space]

VarLayout(resourceInfos) == [resourceInfos |-> resourceInfos]

ResourceInfos ==
    { ResourceInfo("Uniform", o, 0) : o \in UniformOffsets }
    \cup { ResourceInfo("ConstantBuffer", i, sp) : i \in 0..MaxIndex, sp \in 0..MaxSpace }
    \cup { ResourceInfo("ShaderResource", i, 0) : i \in 0..MaxIndex }
    \cup { ResourceInfo("GenericResource", 0, 0), ResourceInfo("VertexInput", 0, 0) }

VarLayouts ==
    { VarLayout(<<info>>) : info \in ResourceInfos }
    \cup { VarLayout(<<ResourceInfo("RegisterSpace", i, 0)>>) : i \in 0..MaxSpace }
    \cup { VarLayout(<<info, ResourceInfo("RegisterSpace", i, 0)>>) :
             info \in { r \in ResourceInfos : r.kind \in {"Uniform", "ConstantBuffer"} },
             i \in 0..MaxSpace }

\* an EmitVarChain, head first
EmitVarChains == UNION { [1..n -> VarLayouts] : n \in 1..MaxChain }

LayoutResourceKinds ==
    {"Uniform", "ConstantBuffer", "ShaderResource", "UnorderedAccess",
     "SamplerState", "RegisterSpace", "GenericResource", "VertexInput"}

\* VarLayout::FindResourceInfo finds an info of the kind
HasResourceInfo(varLayout, kind) ==
    \E i \in DOMAIN varLayout.resourceInfos : varLayout.resourceInfos[i].kind = kind

\* VarLayout::FindResourceInfo: the first info of the kind
FindResourceInfo(varLayout, kind) ==
    varLayout.resourceInfos[
        CHOOSE i \in DOMAIN varLayout.resourceInfos :
            /\ varLayout.resourceInfos[i].kind = kind
            /\ \A j \in 1..(i - 1) : varLayout.resourceInfos[j].kind # kind]

RECURSIVE getBindingOffset(_, _)
getBindingOffset(chain, kind) ==
    IF chain = <<>> THEN 0
    ELSE (IF HasResourceInfo(Head(chain), kind)
          THEN FindResourceInfo(Head(chain), kind).index ELSE 0)
         + getBindingOffset(Tail(chain), kind)

\* the index of a RegisterSpace info counts as space
registerSpaceOf_space(varLayout) ==
    IF HasResourceInfo(varLayout, "RegisterSpace")
    THEN FindResourceInfo(varLayout, "RegisterSpace").space ELSE 0
registerSpaceOf(varLayout) ==
    IF HasResourceInfo(varLayout, "RegisterSpace")
    THEN FindResourceInfo(varLayout, "RegisterSpace").index ELSE 0

RECURSIVE getBindingSpace(_, _)
getBindingSpace(chain, kind) ==
    IF chain = <<>> THEN 0
    ELSE (IF HasResourceInfo(Head(chain), kind)
          THEN FindResourceInfo(Head(chain), kind).space ELSE 0)
         + registerSpaceOf(Head(chain))
         + getBindingSpace(Tail(chain), kind)

kComponentNames == <<"x", "y", "z", "w">>

\* the component of a register a byte offset starts in
startComponent_remainder(byteOffsetInRegister) == byteOffsetInRegister % 4
startComponent(byteOffsetInRegister) == byteOffsetInRegister \div 4

\* the Uniform case: register number, and the component when the offset is
\* not on a register boundary; the release assertion faults
emitUniformRegister(s, offset, uniformSemanticSpelling) ==
    With(Emit(Emit(Emit(Emit(s, <<" : ">>), <<uniformSemanticSpelling>>),
                   <<"(c">>), Digits(offset \div 16)),
         LAMBDA s1 :
            IF offset % 16 # 0
            THEN (IF (offset % 16) % 4 # 0
                  THEN [s1 EXCEPT !.fault = TRUE]
                  ELSE Emit(Emit(Emit(s1, <<".">>),
                                 <<kComponentNames[startComponent(offset % 16) + 1]>>),
                            <<")">>))
            ELSE Emit(s1, <<")">>))

RegisterLetter(kind) ==
    CASE kind = "ConstantBuffer" -> <<"b">>
      [] kind = "ShaderResource" -> <<"t">>
      [] kind = "UnorderedAccess" -> <<"u">>
      [] kind = "SamplerState" -> <<"s">>
      [] OTHER -> <<>>

emitHLSLRegisterSemantic(s, kind, chain, uniformSemanticSpelling) ==
    IF chain = <<>> THEN s
    ELSE IF ~HasResourceInfo(Head(chain), kind) THEN s
    ELSE CASE kind = "Uniform" ->
                emitUniformRegister(s, getBindingOffset(chain, kind),
                                    uniformSemanticSpelling)
           [] kind \in {"RegisterSpace", "GenericResource"} -> s
           [] OTHER ->
                Emit(With(Emit(Emit(Emit(s, <<" : register(">>), RegisterLetter(kind)),
                               Digits(getBindingOffset(chain, kind))),
                          LAMBDA s1 :
                             IF getBindingSpace(chain, kind) # 0
                             THEN Emit(Emit(s1, <<", space">>),
                                       Digits(getBindingSpace(chain, kind)))
                             ELSE s1),
                     <<")">>)

\* the default case of the inner switch reports an internal error
unhandledRegisterType(kind, chain) ==
    /\ chain # <<>>
    /\ HasResourceInfo(Head(chain), kind)
    /\ kind \notin {"Uniform", "RegisterSpace", "GenericResource", "ConstantBuffer",
                    "ShaderResource", "UnorderedAccess", "SamplerState"}

InitBinding ==
    /\ shared = SharedEmitContext("HLSL", "HLSL", FALSE)
    /\ compileRequest = [lineDirectiveMode |-> "None"]
    /\ lastCall = NoCall
    /\ emitCount = 0
    /\ callLog = <<>>
    /\ func = NoFunc
    /\ frames = <<>>
    /\ \E chain \in EmitVarChains :
          context = [name |-> "EmitVarChain", chain |-> chain, sink |-> <<>>]
    /\ pipeline = NoPipeline

EmitHLSLRegisterSemantic ==
    \E kind \in LayoutResourceKinds, spelling \in {"register", "packoffset"} :
        /\ context.name = "EmitVarChain"
        /\ ~shared.fault
        /\ callLog = <<>>
        /\ shared' = emitHLSLRegisterSemantic(shared, kind, context.chain, spelling)
        /\ context' = [context EXCEPT !.sink =
                          IF unhandledRegisterType(kind, context.chain)
                          THEN Append(@, "unhandled HLSL register type") ELSE @]
        /\ lastCall' = [op |-> "emitHLSLRegisterSemantic", kind |-> kind,
                        spelling |-> spelling, before |-> shared]
        /\ callLog' = Append(callLog, [op |-> "emitHLSLRegisterSemantic", kind |-> kind])
        /\ UNCHANGED <<compileRequest, emitCount, func, frames, pipeline>>

NextBinding == EmitHLSLRegisterSemantic

SpecBinding == InitBinding /\ [][NextBinding]_vars

----------------------------------------------------------------------------
(* shouldFoldIRInstIntoUseSites *)

MaxPtrDepth == 2   \* a data type is wrapped in up to MaxPtrDepth pointer types

\* data types as far as shouldFoldIRInstIntoUseSites tells them apart
DataTypeKinds ==
    {"basic", "uniformParameterGroup", "streamOutput", "patch",
     "resource", "structuredBuffer", "samplerState"}

RECURSIVE PtrTypesOver(_, _)
PtrTypesOver(types, depth) ==
    IF depth = 0 THEN types
    ELSE types \cup { PtrType(t) : t \in PtrTypesOver(types, depth - 1) }

DataTypes == PtrTypesOver({ [kind |-> k] : k \in DataTypeKinds }, MaxPtrDepth)

IROps ==
    {"Var", "global_var", "global_constant", "Param",
     "IntLit", "FloatLit", "boolConst", "FieldAddress", "getElementPtr",
     "specialize", "BufferElementRef", "Call", "Load", "Add"}

IREmitModes == {"Default", "GlobalConstant"}

\* while (auto ptrType = type->As<PtrTypeBase>()) type = ptrType->getValueType();
RECURSIVE getValueTypeOfPtrs(_)
getValueTypeOfPtrs(type) ==
    IF type.kind = "ptr" THEN getValueTypeOfPtrs(type.base) ELSE type

\* the types GLSL does not allow as first-class values
foldsOnTarget_any(target, type) ==
    type.kind \in {"resource", "structuredBuffer", "samplerState"}
foldsOnTarget(target, type) ==
    /\ target = "GLSL"
    /\ type.kind \in {"resource", "structuredBuffer", "samplerState"}

shouldFoldIRInstIntoUseSites(s, inst, mode) ==
    CASE inst.op \in {"Var", "global_var", "global_constant", "Param"} -> FALSE
      [] inst.op \in {"IntLit", "FloatLit", "boolConst", "FieldAddress",
                      "getElementPtr", "specialize", "BufferElementRef"} -> TRUE
      [] OTHER ->
            IF mode = "GlobalConstant" THEN TRUE
            ELSE IF getValueTypeOfPtrs(inst.type).kind = "uniformParameterGroup" THEN TRUE
            ELSE IF getValueTypeOfPtrs(inst.type).kind = "streamOutput" THEN TRUE
            ELSE IF getValueTypeOfPtrs(inst.type).kind = "patch" THEN TRUE
            ELSE foldsOnTarget(s.target, getValueTypeOfPtrs(inst.type))

InitFold ==
    /\ \E target \in Targets : shared = SharedEmitContext(target, target, FALSE)
    /\ compileRequest = [lineDirectiveMode |-> "None"]
    /\ lastCall = NoCall
    /\ emitCount = 0
    /\ callLog = <<>>
    /\ func = NoFunc
    /\ frames = <<>>
    /\ \E op \in IROps, type \in DataTypes :
          context = [name |-> "IRInst", op |-> op, type |-> type]
    /\ pipeline = NoPipeline

ShouldFoldIRInstIntoUseSites ==
    \E mode \in IREmitModes :
        /\ context.name = "IRInst"
        /\ lastCall = NoCall
        /\ lastCall' = [op |-> "shouldFoldIRInstIntoUseSites", mode |-> mode,
                        result |-> shouldFoldIRInstIntoUseSites(shared, context, mode)]
        /\ UNCHANGED <<shared, compileRequest, emitCount, callLog, func, frames,
                       context, pipeline>>

NextFold == ShouldFoldIRInstIntoUseSites

SpecFold == InitFold /\ [][NextFold]_vars

----------------------------------------------------------------------------
(* Target intrinsic calls: emitTargetIntrinsicCallExpr *)

MaxArgs == 2   \* an intrinsic call has up to MaxArgs arguments

LowerCaseLetters ==
    {"a", "b", "c", "d", "e", "f", "g", "h", "i", "j", "k", "l", "m",
     "n", "o", "p", "q", "r", "s", "t", "u", "v", "w", "x", "y", "z"}
UpperCaseLetters ==
    {"A", "B", "C", "D", "E", "F", "G", "H", "I", "J", "K", "L", "M",
     "N", "O", "P", "Q", "R", "S", "T", "U", "V", "W", "X", "Y", "Z"}
DecimalDigits == {"0", "1", "2", "3", "4", "5", "6", "7", "8", "9"}

\* the definition strings of target intrinsic decorations, character by
\* character
IntrinsicDefinitions ==
    { <<"f", "o", "o">>, <<"f", "_", "G">>, <<"l", "o", "g", "2">>,
      <<"$", "0", "+", "$", "1">>, <<"$", "1">>, <<"$", "2">>,
      <<"f", "(", "$", "P", ")">>, <<"$", "p">>, <<"$">>, <<"$", "q">> }

\* operands of a call: named values the emitter does not fold
IROperand(name, typeKind) == [name |-> name, type |-> [kind |-> typeKind]]

IROperands ==
    { IROperand("t", "texture"), IROperand("s", "samplerState"),
      IROperand("a", "basic") }

IRCallArgs == UNION { [1..n -> IROperands] : n \in 0..MaxArgs }

\* the calls of the module: $P stands in the definitions of the load
\* operations of textures, called on a first argument
IRCalls ==
    { call \in [definition : IntrinsicDefinitions, args : IRCallArgs] :
        (\E i \in DOMAIN call.definition : call.definition[i] = "P")
            => Len(call.args) >= 1 }

\* a character the definition of an ordinary name may hold
isOrdinaryNameChar(c) == c \in LowerCaseLetters \cup UpperCaseLetters \cup {"_"}

isOrdinaryName(name) == \A i \in DOMAIN name : isOrdinaryNameChar(name[i])

\* emitIROperand of a value that is not folded: its name
emitIROperand(s, operand) == Emit(s, <<operand.name>>)

\* the arguments of the plain call, separated by commas
RECURSIVE emitCallArgs(_, _, _)
emitCallArgs(s, args, aa) ==
    IF aa > Len(args) \/ s.fault THEN s
    ELSE emitCallArgs(emitIROperand(IF aa # 1 THEN Emit(s, <<", ">>) ELSE s,
                                    args[aa]),
                      args, aa + 1)

\* emitGLSLTextureOrTextureSamplerType of a 2D texture of floats
emitGLSLTextureOrTextureSamplerType(s, baseName) == Emit(Emit(s, <<baseName>>), <<"2D">>)

\* index of a decimal digit character
DigitValue(d) == CHOOSE k \in 0..9 : DigitChar(k) = d

\* one escape sequence $d of a definition
emitIntrinsicEscape(s, d, args) ==
    CASE d \in DecimalDigits ->
            IF ~(DigitValue(d) < Len(args)) THEN [s EXCEPT !.fault = TRUE]
            ELSE Emit(emitIROperand(Emit(s, <<"(">>), args[DigitValue(d) + 1]), <<")">>)
      [] d = "p" ->
            IF ~(Len(args) >= 2) THEN [s EXCEPT !.fault = TRUE]
            ELSE IF args[1].type.kind # "texture" THEN [s EXCEPT !.fault = TRUE]
            ELSE Emit(emitIROperand(Emit(emitIROperand(Emit(
                        emitGLSLTextureOrTextureSamplerType(s, "sampler"),
                        <<"(">>), args[1]), <<",">>), args[2]), <<")">>)
      [] d = "P" ->
            IF args[1].type.kind # "texture" THEN [s EXCEPT !.fault = TRUE]
            ELSE Emit([Emit(Emit(emitIROperand(Emit(
                          emitGLSLTextureOrTextureSamplerType(s, "sampler"),
                          <<"(">>), args[1]), <<",">>),
                          <<"SLANG_hack_samplerForTexelFetch">>)
                        EXCEPT !.needHackSamplerForTexelFetch = TRUE],
                      <<")">>)
      [] OTHER -> [s EXCEPT !.fault = TRUE]

\* the loop over the characters of a definition that is not an ordinary name
RECURSIVE emitIntrinsicTemplate(_, _, _, _)
emitIntrinsicTemplate(s, name, cursor, args) ==
    IF cursor > Len(name) \/ s.fault THEN s
    ELSE IF name[cursor] # "$"
         THEN emitIntrinsicTemplate(emitRawText(s, <<name[cursor]>>),
                                    name, cursor + 1, args)
    ELSE IF cursor = Len(name) THEN [s EXCEPT !.fault = TRUE]
    ELSE emitIntrinsicTemplate(emitIntrinsicEscape(s, name[cursor + 1], args),
                               name, cursor + 2, args)

emitTargetIntrinsicCallExpr(s, args, name) ==
    IF isOrdinaryName(name)
    THEN Emit(emitCallArgs(Emit(Emit(s, name), <<"(">>), args, 1), <<")">>)
    ELSE With(emitIntrinsicTemplate(Emit(s, <<"(">>), name, 1, args),
              LAMBDA s1 : IF s1.fault THEN s1 ELSE Emit(s1, <<")">>))

InitIntrinsic ==
    /\ shared = SharedEmitContext("GLSL", "GLSL", FALSE)
    /\ compileRequest = [lineDirectiveMode |-> "None"]
    /\ lastCall = NoCall
    /\ emitCount = 0
    /\ callLog = <<>>
    /\ func = NoFunc
    /\ frames = <<>>
    /\ \E call \in IRCalls :
          context = [name |-> "IRCall", definition |-> call.definition,
                     args |-> call.args]
    /\ pipeline = NoPipeline

EmitTargetIntrinsicCallExpr ==
    /\ context.name = "IRCall"
    /\ lastCall = NoCall
    /\ shared' = emitTargetIntrinsicCallExpr(shared, context.args, context.definition)
    /\ lastCall' = [op |-> "emitTargetIntrinsicCallExpr", before |-> shared]
    /\ UNCHANGED <<compileRequest, emitCount, callLog, func, frames, context, pipeline>>

NextIntrinsic == EmitTargetIntrinsicCallExpr

SpecIntrinsic == InitIntrinsic /\ [][NextIntrinsic]_vars

----------------------------------------------------------------------------
(* emitEntryPoint: stitching the final text together *)

MaxDirectives == 2   \* a module has up to MaxDirectives extension directives

GLSLExtensionDirective(name, disposition) ==
    [extensionNameToken |-> name, dispositionToken |-> disposition]

GLSLExtensionDirectives ==
    { GLSLExtensionDirective("GL_A", "enable"),
      GLSLExtensionDirective("GL_B", "require"),
      GLSLExtensionDirective("GL_C", "enable") }

\* the modifiers of the module declaration, and the profile of the target
Programs ==
    UNION { [1..n -> GLSLExtensionDirectives] : n \in 0..MaxDirectives }

\* the effective profile: 0 when its family is not GLSL, else a version
EffectiveProfiles == {0, 9, 12}

\* emitGLSLVersionDirective: at least version 450 is required and printed
emitGLSLVersionDirective(s, effectiveProfile) ==
    With([(IF effectiveProfile # 0 THEN requireGLSLVersion(s, effectiveProfile) ELSE s)
            EXCEPT !.extensionUsageTracker = requireGLSLVersionImpl(@, Len(VersionTable))],
         LAMBDA s1 :
            Emit(s1, <<"#version ">>
                     \o Digits(VersionTable[s1.extensionUsageTracker.profileVersion])
                     \o <<"\n">>))

\* the loop of emitGLSLPreprocessorDirectives: one line per directive
RECURSIVE emitGLSLExtensionDirectives(_, _)
emitGLSLExtensionDirectives(s, directives) ==
    IF directives = <<>> THEN s
    ELSE emitGLSLExtensionDirectives(
            Emit(Emit(Emit(Emit(Emit(s, <<"#extension ">>),
                                <<Head(directives).extensionNameToken>>),
                           <<" : ">>),
                      <<Head(directives).dispositionToken>>),
                 <<"\n">>),
            Tail(directives))

emitGLSLPreprocessorDirectives(s, program, effectiveProfile) ==
    IF s.target # "GLSL" THEN s
    ELSE emitGLSLExtensionDirectives(emitGLSLVersionDirective(s, effectiveProfile),
                                     program)

\* sb.Clear(): the text is gone, nothing else of the context changes
ClearedBuilder_context(s) == [s EXCEPT !.sb = <<>>, !.needHackSamplerForTexelFetch = FALSE]
ClearedBuilder(s) == [s EXCEPT !.sb = <<>>]

HackSamplerLine ==
    <<"layout(set = 0, binding = ", "0",
      ") uniform sampler SLANG_hack_samplerForTexelFetch;\n">>

InitFinalText ==
    /\ \E target \in Targets : shared = SharedEmitContext(target, target, FALSE)
    /\ compileRequest = [lineDirectiveMode |-> "None"]
    /\ lastCall = NoCall
    /\ emitCount = 0
    /\ callLog = <<>>
    /\ func = NoFunc
    /\ frames = <<>>
    /\ \E program \in Programs, profile \in EffectiveProfiles :
          context = [name |-> "emitEntryPoint", program |-> program,
                     effectiveProfile |-> profile,
                     pc |-> "emitIRModule", finalResult |-> <<>>]
    /\ pipeline = NoPipeline

\* emitIRModule meets a construct that needs an extension
EmitCodeRequiringExtension ==
    \E name \in ExtensionNames :
        /\ context.name = "emitEntryPoint" /\ context.pc = "emitIRModule"
        /\ ~shared.fault
        /\ Len(callLog) < MaxCalls
        /\ shared' = Emit([shared EXCEPT
                             !.extensionUsageTracker =
                                 IF shared.target = "GLSL"
                                 THEN requireGLSLExtension(@, name) ELSE @],
                          <<"code", ";", "\n">>)
        /\ lastCall' = [op |-> "requireGLSLExtension", arg |-> name,
                        before |-> shared.extensionUsageTracker]
        /\ callLog' = Append(callLog, [op |-> "requireGLSLExtension", arg |-> name])
        /\ UNCHANGED <<compileRequest, emitCount, func, frames, context, pipeline>>

\* the intrinsic calls of the module: a texel fetch of a texture, one whose
\* first argument is no texture, and a call of an ordinary name
EntryPointCalls ==
    { [definition |-> <<"f", "(", "$", "P", ")">>, args |-> <<IROperand("t", "texture")>>],
      [definition |-> <<"f", "(", "$", "P", ")">>, args |-> <<IROperand("a", "basic")>>],
      [definition |-> <<"f", "o", "o">>, args |-> <<IROperand("a", "basic")>>] }

\* emitIRModule meets a call of a target intrinsic
EmitIntrinsicCall ==
    \E call \in EntryPointCalls :
        /\ context.name = "emitEntryPoint" /\ context.pc = "emitIRModule"
        /\ ~shared.fault
        /\ Len(callLog) < MaxCalls
        /\ shared' = Emit(emitTargetIntrinsicCallExpr(shared, call.args, call.definition),
                          <<";", "\n">>)
        /\ lastCall' = [op |-> "emitTargetIntrinsicCallExpr", before |-> shared]
        /\ callLog' = Append(callLog, [op |-> "emitTargetIntrinsicCallExpr", arg |-> call])
        /\ UNCHANGED <<compileRequest, emitCount, func, frames, context, pipeline>>

\* code, prefix and the final result of emitEntryPoint
StitchFinalResult ==
    /\ context.name = "emitEntryPoint" /\ context.pc = "emitIRModule"
    /\ ~shared.fault
    /\ shared' = emitGLSLPreprocessorDirectives(ClearedBuilder(shared),
                                                context.program,
                                                context.effectiveProfile)
    /\ context' = [context EXCEPT
                     !.pc = "return",
                     !.finalResult =
                        shared'.sb
                        \o shared'.extensionUsageTracker.glslExtensionRequireLines
                        \o (IF shared'.needHackSamplerForTexelFetch
                            THEN HackSamplerLine ELSE <<>>)
                        \o shared.sb]
    /\ lastCall' = [op |-> "emitEntryPoint"]
    /\ UNCHANGED <<compileRequest, emitCount, callLog, func, frames, pipeline>>

NextFinalText == EmitCodeRequiringExtension \/ EmitIntrinsicCall \/ StitchFinalResult

SpecFinalText == InitFinalText /\ [][NextFinalText]_vars

----------------------------------------------------------------------------
(* specializeRTTIObjects: handle types and interface types leave the module *)

MaxModuleInsts == 3   \* the module holds at most MaxModuleInsts global insts

\* A global instruction: its operands name the instructions it uses.
IRInst(id, op, operands) == [id |-> id, op |-> op, operands |-> operands]

IRConstant(id, type, value) ==
    [id |-> id, op |-> "IntLit", operands |-> <<type>>, value |-> value]

\* a new instruction is an object no instruction of the module is
UnusedInstID(insts) ==
    1 + With({0} \cup { insts[i].id : i \in DOMAIN insts },
             LAMBDA ids : CHOOSE m \in ids : \A id \in ids : id <= m)

InstsWithOp(insts, op) == { insts[i].id : i \in { j \in DOMAIN insts : insts[j].op = op } }

InstWithID(insts, id) == insts[CHOOSE i \in DOMAIN insts : insts[i].id = id]

\* IRBuilder with setInsertBefore(inst): a new instruction goes before inst
insertBefore(insts, before, inst) ==
    With(CHOOSE i \in DOMAIN insts : insts[i].id = before,
         LAMBDA p : SubSeq(insts, 1, p - 1) \o <<inst>> \o SubSeq(insts, p, Len(insts)))

\* IRBuilder::getUInt64Type: the one instruction of this type, made on demand
emitUInt64Type(insts, before) ==
    IF InstsWithOp(insts, "UInt64Type") # {} THEN insts
    ELSE insertBefore(insts, before, IRInst(UnusedInstID(insts), "UInt64Type", <<>>))

getUInt64Type(insts) == CHOOSE id \in InstsWithOp(insts, "UInt64Type") : TRUE

\* IRBuilder::getIntType with setInsertInto(module)
emitIntType(insts) ==
    IF InstsWithOp(insts, "IntType") # {} THEN insts
    ELSE Append(insts, IRInst(UnusedInstID(insts), "IntType", <<>>))

getIntType(insts) == CHOOSE id \in InstsWithOp(insts, "IntType") : TRUE

IntValues(insts, type, value) ==
    { insts[i].id : i \in { j \in DOMAIN insts :
                              /\ insts[j].op = "IntLit"
                              /\ insts[j].operands = <<type>>
                              /\ insts[j].value = value } }

\* IRBuilder::getIntValue: the one constant of this type and value
emitIntValue(insts, type, value) ==
    IF IntValues(insts, type, value) # {} THEN insts
    ELSE Append(insts, IRConstant(UnusedInstID(insts), type, value))

getIntValue(insts, type, value) == CHOOSE id \in IntValues(insts, type, value) : TRUE

\* IRInst::replaceUsesWith: every operand that names old names new instead
replaceUsesWith(insts, old, new) ==
    [i \in DOMAIN insts |->
        [insts[i] EXCEPT !.operands =
            [k \in DOMAIN @ |-> IF @[k] = old THEN new ELSE @[k]]]]

\* IRInst::removeAndDeallocate, for each instruction of a list
RECURSIVE removeAndDeallocate(_, _)
removeAndDeallocate(insts, ids) ==
    IF insts = <<>> THEN <<>>
    ELSE IF Head(insts).id \in ids THEN removeAndDeallocate(Tail(insts), ids)
    ELSE <<Head(insts)>> \o removeAndDeallocate(Tail(insts), ids)

\* the cases of the switch in cleanUpRTTIHandleTypes
isRTTIHandleTypeOp_witnessTable(op) == op = "WitnessTableIDType"
isRTTIHandleTypeOp(op) == op \in {"WitnessTableIDType", "RTTIHandleType"}

\* the first loop of cleanUpRTTIHandleTypes, over the global instructions
RECURSIVE replaceRTTIHandleTypes(_, _)
replaceRTTIHandleTypes(insts, ids) ==
    IF ids = <<>> THEN insts
    ELSE IF isRTTIHandleTypeOp(InstWithID(insts, Head(ids)).op)
    THEN With(emitUInt64Type(insts, Head(ids)),
              LAMBDA m : replaceRTTIHandleTypes(
                             replaceUsesWith(m, Head(ids), getUInt64Type(m)),
                             Tail(ids)))
    ELSE replaceRTTIHandleTypes(insts, Tail(ids))

GlobalInstIDs(insts) == [i \in DOMAIN insts |-> insts[i].id]

cleanUpRTTIHandleTypes(insts) ==
    removeAndDeallocate(
        replaceRTTIHandleTypes(insts, GlobalInstIDs(insts)),
        { insts[i].id : i \in { j \in DOMAIN insts : isRTTIHandleTypeOp(insts[j].op) } })

\* the second loop of cleanUpInterfaceTypes
RECURSIVE replaceInterfaceTypes(_, _, _)
replaceInterfaceTypes(insts, interfaceInsts, dummyInterfaceObj) ==
    IF interfaceInsts = <<>> THEN insts
    ELSE replaceInterfaceTypes(
            removeAndDeallocate(
                replaceUsesWith(insts, Head(interfaceInsts), dummyInterfaceObj),
                {Head(interfaceInsts)}),
            Tail(interfaceInsts), dummyInterfaceObj)

isInterfaceTypeInst(inst) == inst.op = "InterfaceType"

cleanUpInterfaceTypes(insts) ==
    With(emitIntType(insts),
         LAMBDA m1 :
            With(emitIntValue(m1, getIntType(m1), 0),
                 LAMBDA m2 :
                    replaceInterfaceTypes(
                        m2,
                        GlobalInstIDs(SelectSeq(m2, isInterfaceTypeInst)),
                        getIntValue(m2, getIntType(m2), 0))))

\* The modules handed to specializeRTTIObjects: types, and the instructions
\* that use them.
GlobalInstOps == {"WitnessTableIDType", "RTTIHandleType", "InterfaceType",
                  "UInt64Type", "Var"}

\* a type with operands uses another type; a variable uses up to two types
OperandLists(op, n) ==
    IF op \in {"UInt64Type", "RTTIHandleType"} THEN {<<>>}
    ELSE IF op = "Var"
    THEN {<<>>} \cup { <<id>> : id \in 1..n }
                \cup { ab \in (1..n) \X (1..n) : ab[1] < ab[2] }
    ELSE {<<>>} \cup { <<id>> : id \in 1..n }

TypeModules ==
    UNION { { m \in [1..n -> UNION { { IRInst(0, op, operands) :
                                         operands \in OperandLists(op, n) } :
                                     op \in GlobalInstOps }] :
                /\ Cardinality({ i \in 1..n : m[i].op = "UInt64Type" }) <= 1
                /\ \A i \in 1..n : i \notin { m[i].operands[k] : k \in DOMAIN m[i].operands } }
            : n \in 1..MaxModuleInsts }

SpecializeRTTIContext(globalInsts) ==
    [name |-> "specializeRTTIObjects",
     globalInsts |-> globalInsts,
     entry |-> globalInsts]

SpecializeRTTIObjectsPass(pass, pc, reports, pcNext, pcOnError) ==
    /\ context.name = "specializeRTTIObjects"
    /\ RunPass("specializeRTTIObjects", pass, pc, reports, pcNext, pcOnError)

DispatchFunctionsPass ==
    SpecializeRTTIObjectsPass("specializeDispatchFunctions",
                              "specializeDispatchFunctions", TRUE,
                              "specializeDynamicAssociatedTypeLookup", "return")

DynamicAssociatedTypeLookupPass ==
    SpecializeRTTIObjectsPass("specializeDynamicAssociatedTypeLookup",
                              "specializeDynamicAssociatedTypeLookup", TRUE,
                              "specializeRTTIObjectReferences", "return")

RTTIObjectReferencesPass ==
    SpecializeRTTIObjectsPass("specializeRTTIObjectReferences",
                              "specializeRTTIObjectReferences", FALSE,
                              "cleanUpRTTIHandleTypes", "cleanUpRTTIHandleTypes")

CleanUpRTTIHandleTypesPass ==
    /\ pipeline.name = "specializeRTTIObjects"
    /\ pipeline.pc = "cleanUpRTTIHandleTypes"
    /\ context' = [context EXCEPT
                     !.globalInsts = cleanUpRTTIHandleTypes(@)]
    /\ pipeline' = [pipeline EXCEPT
                      !.ran = Append(@, [pass |-> "cleanUpRTTIHandleTypes",
                                         errorCount |-> getErrorCount(pipeline.sink)]),
                      !.pc = "cleanUpInterfaceTypes"]
    /\ lastCall' = [op |-> "cleanUpRTTIHandleTypes", before |-> context.globalInsts]
    /\ UNCHANGED <<shared, compileRequest, emitCount, callLog, func, frames>>

CleanUpInterfaceTypesPass ==
    /\ pipeline.name = "specializeRTTIObjects"
    /\ pipeline.pc = "cleanUpInterfaceTypes"
    /\ context' = [context EXCEPT
                     !.globalInsts = cleanUpInterfaceTypes(@)]
    /\ pipeline' = [pipeline EXCEPT
                      !.ran = Append(@, [pass |-> "cleanUpInterfaceTypes",
                                         errorCount |-> getErrorCount(pipeline.sink)]),
                      !.pc = "return"]
    /\ lastCall' = [op |-> "cleanUpInterfaceTypes", before |-> context.globalInsts]
    /\ UNCHANGED <<shared, compileRequest, emitCount, callLog, func, frames>>

InitSpecializeRTTI ==
    /\ shared = SharedEmitContext("HLSL", "HLSL", FALSE)
    /\ compileRequest = [lineDirectiveMode |-> "None"]
    /\ lastCall = NoCall
    /\ emitCount = 0
    /\ callLog = <<>>
    /\ func = NoFunc
    /\ frames = <<>>
    /\ \E m \in TypeModules :
          context = SpecializeRTTIContext(
                        [i \in DOMAIN m |-> [m[i] EXCEPT !.id = i]])
    /\ pipeline = Pipeline("specializeRTTIObjects", "specializeDispatchFunctions")

NextSpecializeRTTI ==
    \/ DispatchFunctionsPass \/ DynamicAssociatedTypeLookupPass
    \/ RTTIObjectReferencesPass
    \/ CleanUpRTTIHandleTypesPass \/ CleanUpInterfaceTypesPass

SpecSpecializeRTTI == InitSpecializeRTTI /\ [][NextSpecializeRTTI]_vars

----------------------------------------------------------------------------
(* Unique IDs: allocateUniqueID, getID and the names made of them *)

MaxIDs == 7   \* parameter blocks are emitted while uniqueIDCounter <= MaxIDs

\* What gets a name: a declaration, an IR value, a parameter block.
Entity(kind, key, name) == [kind |-> kind, key |-> key, name |-> name]

Decls == { Entity("Decl", 1, <<"d">>), Entity("Decl", 2, <<>>) }
IRValues == { Entity("IRInst", 1, <<>>), Entity("IRInst", 2, <<>>) }

\* Dictionary::Add
DictionaryAdd(map, key, value) ==
    [k \in DOMAIN map \cup {key} |-> IF k = key THEN value ELSE map[k]]

\* the result of a call that also changes the shared context
Returned(s, value) == [s |-> s, value |-> value]

allocateUniqueID_noAdvance(s) == Returned(s, s.uniqueIDCounter)

allocateUniqueID(s) ==
    Returned([s EXCEPT !.uniqueIDCounter = @ + 1], s.uniqueIDCounter)

\* getID(Decl*)
getID_Decl(s, decl) ==
    IF decl \in DOMAIN s.mapDeclToID THEN Returned(s, s.mapDeclToID[decl])
    ELSE With(allocateUniqueID(s),
              LAMBDA r : Returned([r.s EXCEPT !.mapDeclToID =
                                       DictionaryAdd(@, decl, r.value)],
                                  r.value))

\* getID(IRInst*)
getID_IRInst(s, value) ==
    IF value \in DOMAIN s.mapIRValueToID THEN Returned(s, s.mapIRValueToID[value])
    ELSE With(allocateUniqueID(s),
              LAMBDA r : Returned([r.s EXCEPT !.mapIRValueToID =
                                       DictionaryAdd(@, value, r.value)],
                                  r.value))

\* Emit(UInt): the decimal digits of the value
EmitUInt(s, value) == Emit(s, Digits(value))

\* emitName(Decl*): the name of the declaration, if it has one, then _S<id>
emitName(s, decl) ==
    With(getID_Decl(Emit(Emit(s, decl.name), <<"_S">>), decl),
         LAMBDA r : EmitUInt(r.s, r.value))

\* getIRName(IRInst*), for a value that has no name of its own: _S<id>
getIRName(s, inst) ==
    With(getID_IRInst(s, inst),
         LAMBDA r : Returned(r.s, <<"_S">> \o Digits(r.value)))

\* emitHLSLParameterBlock: cbuffer _S<id>, the ID taken from the counter
emitHLSLParameterBlock(s) ==
    EmitUInt([Emit(Emit(s, <<"cbuffer ">>), <<"_S">>)
                 EXCEPT !.uniqueIDCounter = @ + 1],
             s.uniqueIDCounter)

\* what was handed out so far: which entity got which ID, under which name
UniqueIDContext == [name |-> "uniqueID", handedOut |-> {}, blocks |-> 0]

HandedOut(entity, id) ==
    [entity |-> entity, id |-> id, name |-> <<"_S">> \o Digits(id)]

InitUniqueID ==
    /\ shared = SharedEmitContext("HLSL", "HLSL", FALSE)
    /\ compileRequest = [lineDirectiveMode |-> "None"]
    /\ lastCall = NoCall
    /\ emitCount = 0
    /\ callLog = <<>>
    /\ func = NoFunc
    /\ frames = <<>>
    /\ context = UniqueIDContext
    /\ pipeline = NoPipeline

EmitName ==
    \E decl \in Decls :
        /\ context.name = "uniqueID"
        /\ emitCount < MaxEmits
        /\ shared' = emitName(shared, decl)
        /\ emitCount' = emitCount + 1
        /\ context' = [context EXCEPT !.handedOut =
                          @ \cup {HandedOut(decl, shared'.mapDeclToID[decl])}]
        /\ lastCall' = [op |-> "emitName", arg |-> decl,
                        text |-> Suffix(shared'.sb, Len(shared.sb))]
        /\ UNCHANGED <<compileRequest, callLog, func, frames, pipeline>>

GetIRName ==
    \E inst \in IRValues :
        /\ context.name = "uniqueID"
        /\ shared' = getIRName(shared, inst).s
        /\ context' = [context EXCEPT !.handedOut =
                          @ \cup {HandedOut(inst, getID_IRInst(shared, inst).value)}]
        /\ lastCall' = [op |-> "getIRName", arg |-> inst,
                        text |-> getIRName(shared, inst).value]
        /\ UNCHANGED <<compileRequest, emitCount, callLog, func, frames, pipeline>>

EmitHLSLParameterBlock ==
    /\ context.name = "uniqueID"
    /\ shared.uniqueIDCounter <= MaxIDs
    /\ shared' = emitHLSLParameterBlock(shared)
    /\ context' = [context EXCEPT
                     !.blocks = @ + 1,
                     !.handedOut =
                        @ \cup {HandedOut(Entity("ParameterBlock", context.blocks + 1, <<>>),
                                          shared.uniqueIDCounter)}]
    /\ lastCall' = [op |-> "emitHLSLParameterBlock",
                    arg |-> Entity("ParameterBlock", context.blocks + 1, <<>>),
                    text |-> Suffix(shared'.sb, Len(shared.sb))]
    /\ UNCHANGED <<compileRequest, emitCount, callLog, func, frames, pipeline>>

NextUniqueID == EmitName \/ GetIRName \/ EmitHLSLParameterBlock

SpecUniqueID == InitUniqueID /\ [][NextUniqueID]_vars

----------------------------------------------------------------------------
(* Properties of source-location tracking (SpecLine) *)

DirectiveEnabled == ~(compileRequest.lineDirectiveMode \in {"None", "Default"})

\* the last call emitted text and flushed a pending, valid location
FlushedValidLocation ==
    /\ lastCall.op = "emit"
    /\ lastCall.need
    /\ lastCall.req.line > 0

\* C1: in a directive-enabled mode, for a valid requested location: same
\* file and 1, 2 or 3 lines after the cursor line gives exactly that many
\* newlines and no directive; 4 or more lines after, any line before, or
\* another file gives one re-sync directive; a location that matches the
\* cursor (same file and line, column not behind the cursor) gives nothing.
C1_DirectiveThresholding ==
    (FlushedValidLocation /\ DirectiveEnabled) =>
        LET req == lastCall.req
            cur == lastCall.cursor
            out == lastCall.flushed
            d   == req.line - cur.line
        IN  /\ (req.path = cur.path /\ d \in 1..3) => out = Repeat("\n", d)
            /\ (req.path # cur.path \/ d >= 4 \/ d < 0) =>
                    CountOf(DirectiveStart, out) = 1
            /\ (req.path = cur.path /\ d = 0 /\ req.column >= cur.column) =>
                    out = <<>>

\* reached: a flush that closed a gap of exactly three lines with newlines
C1_Witness ==
    /\ FlushedValidLocation /\ DirectiveEnabled
    /\ lastCall.req.path = lastCall.cursor.path
    /\ lastCall.req.line - lastCall.cursor.line = 3
    /\ lastCall.flushed = <<"\n", "\n", "\n">>

\* C2: in mode None or Default no directive and no padding newline is ever
\* written, and the fault of emitLineDirective is never raised.
C2_NoDirectiveWhenSuppressed ==
    (compileRequest.lineDirectiveMode \in {"None", "Default"}) =>
        /\ ~shared.fault
        /\ CountOf(DirectiveStart, shared.sb) = 0
        /\ (lastCall.op = "emit" => lastCall.flushed = <<>>)

\* reached: in a suppressed mode, text was emitted while a valid location in
\* another file than the cursor's was pending
C2_Witness ==
    /\ compileRequest.lineDirectiveMode \in {"None", "Default"}
    /\ FlushedValidLocation
    /\ lastCall.req.path # lastCall.cursor.path
    /\ shared.sb # <<>>

----------------------------------------------------------------------------
(* Properties of the extension/version tracker (SpecTracker) *)

SetMax(S) == CHOOSE m \in S : \A x \in S : x <= m

\* the supported version numbers requested so far
VersionsRequested ==
    { callLog[i].arg : i \in { j \in DOMAIN callLog :
          /\ callLog[j].op = "requireGLSLVersion"
          /\ \E k \in DOMAIN VersionTable : VersionTable[k] = callLog[j].arg } }

\* C5: on the GLSL target the tracked version is the maximum of the initial
\* version (110) and every version requested; a request that is not higher
\* than the current version changes nothing and the version never decreases.
C5_MonotoneRequiredVersion ==
    LET tracker == shared.extensionUsageTracker IN
    (shared.target = "GLSL") =>
        /\ VersionTable[tracker.profileVersion] =
               SetMax({VersionTable[GLSL_110]} \cup VersionsRequested)
        /\ (lastCall.op = "requireGLSLVersion") =>
               /\ VersionTable[tracker.profileVersion] >=
                      VersionTable[lastCall.before.profileVersion]
               /\ (lastCall.arg <= VersionTable[lastCall.before.profileVersion]) =>
                      tracker = lastCall.before

\* reached: a lower version was requested after a higher one
C5_Witness ==
    /\ shared.target = "GLSL"
    /\ lastCall.op = "requireGLSLVersion"
    /\ lastCall.arg = 130
    /\ VersionTable[lastCall.before.profileVersion] = 450
    /\ VersionTable[shared.extensionUsageTracker.profileVersion] = 450

\* the names requested so far, each once, in order of first request
RECURSIVE FirstRequested(_, _)
FirstRequested(log, seen) ==
    IF log = <<>> THEN <<>>
    ELSE IF Head(log).op = "requireGLSLExtension" /\ ~(Head(log).arg \in seen)
         THEN <<Head(log).arg>> \o
              FirstRequested(Tail(log), seen \cup {Head(log).arg})
         ELSE FirstRequested(Tail(log), seen)

RECURSIVE ExtensionLines(_)
ExtensionLines(names) ==
    IF names = <<>> THEN <<>>
    ELSE <<"#extension ", Head(names), " : require\n">> \o ExtensionLines(Tail(names))

\* C6: the accumulated lines are exactly one `#extension NAME : require`
\* line per distinct name requested, in order of first request, and a
\* repeated request changes nothing.
C6_ExtensionLinesOncePerName ==
    LET tracker == shared.extensionUsageTracker IN
    /\ tracker.glslExtensionRequireLines =
           ExtensionLines(FirstRequested(callLog, {}))
    /\ (/\ lastCall.op = "requireGLSLExtension"
        /\ lastCall.arg \in lastCall.before.glslExtensionsRequired) =>
           tracker = lastCall.before

\* reached: a name was requested again after another name had been requested
C6_Witness ==
    /\ lastCall.op = "requireGLSLExtension"
    /\ lastCall.arg \in lastCall.before.glslExtensionsRequired
    /\ Cardinality(shared.extensionUsageTracker.glslExtensionsRequired) = 2

----------------------------------------------------------------------------
(* Properties of struct declaration emission (SpecDecl) *)

\* number of `struct NAME` declaration headers for a struct in a text
StructDeclCount(text, name) ==
    Cardinality({ i \in 1..(Len(text) - 1) :
                    text[i] = "struct " /\ text[i + 1] = name })

\* the struct a type refers to through arrays, pointers and element types
RECURSIVE ReferredStruct(_)
ReferredStruct(type) ==
    CASE type.kind = "declRef" -> {type.decl}
      [] type.kind = "basic" -> {}
      [] OTHER -> ReferredStruct(type.base)

\* C7: within one session the declaration of a struct is written at most
\* once, whatever the number and order of references, and a reference to a
\* struct that was already visited writes nothing.
C7_StructDeclaredAtMostOnce ==
    /\ \A name \in StructNames : StructDeclCount(shared.sb, name) <= 1
    /\ (lastCall.op = "emitIRUsedType") =>
          \A name \in ReferredStruct(lastCall.arg) :
              (getMangledName(name) \in lastCall.before.irDeclsVisited) =>
                  shared.sb = lastCall.before.sb

\* reached: struct S, already declared, was referenced again (through an
\* array type) and its declaration is in the output once
C7_Witness ==
    /\ lastCall.op = "emitIRUsedType"
    /\ lastCall.arg = ArrayType(DeclRefType("S"))
    /\ StructDeclCount(lastCall.before.sb, "S") = 1
    /\ StructDeclCount(shared.sb, "S") = 1

----------------------------------------------------------------------------
(* Properties of the emission of a function body (SpecWalk) *)

WalkDone == frames = <<FuncFrame("func-done")>>

SwitchCases == func.blocks["E"].terminator.cases

\* the instruction standing for the body of the target block of a case
BodyOf(label) == func.blocks[label].insts[1]

CaseTargets == { SwitchCases[i].label : i \in DOMAIN SwitchCases }

\* the case labels, opening braces and case bodies of the emitted text, in
\* order
CaseSkeleton(text) ==
    SelectSeq(text,
        LAMBDA tok : \/ tok \in {"case ", "{"}
                     \/ \E i \in DOMAIN SwitchCases : tok = SwitchCases[i].value
                     \/ \E l \in CaseTargets : tok = BodyOf(l))

\* the `default:` group stands alone
SeparateDefault ==
    LET t == func.blocks["E"].terminator
    IN  t.defaultLabel # t.breakLabel /\ t.defaultLabel \notin CaseTargets

\* the skeleton of a switch whose every group of same-target cases is
\* `case`, `case`, ... in front of one braced body
RECURSIVE FoldedGroups(_)
FoldedGroups(i) ==
    IF i > Len(SwitchCases) THEN <<>>
    ELSE <<"case ", SwitchCases[i].value>>
         \o (IF i < Len(SwitchCases) /\ SwitchCases[i + 1].label = SwitchCases[i].label
             THEN <<>> ELSE <<"{", BodyOf(SwitchCases[i].label)>>)
         \o FoldedGroups(i + 1)

FoldedSkeleton ==
    <<"{", "{">> \o FoldedGroups(1)
                \o (IF SeparateDefault THEN <<"{">> ELSE <<>>)

OpenLoops == SelectSeq(frames, LAMBDA f : f.pc = "loop-body")

\* the entries of a label stack for `continue`, innermost first
ContinueEntries(labels) == SelectSeq(labels, LAMBDA ll : ll.op = kLabelOp_continue)

InnerHeader == "H2"
OuterHeader == "H1"

\* C4: in two nested loops a branch from the inner loop's body to the inner
\* loop's header is resolved by the innermost `continue` entry of the label
\* stack, which names the inner header and not the outer one; `continue;` is
\* written while the braces of both loops are open, the inner loop's being
\* the innermost; and the statements of the inner header appear only once.
C4_InnerContinue ==
    func.name = "nestedLoops" =>
        /\ CountOf(BodyOf(InnerHeader), shared.sb) <= 1
        /\ (lastCall.op = "label" /\ lastCall.block = InnerHeader) =>
              LET useLabels == lastCall.frame.useLabels
                  ll == useLabels[lastCall.entry]
              IN  /\ ll.op = kLabelOp_continue
                  /\ ll = ContinueEntries(useLabels)[1]
                  /\ ll.block = InnerHeader /\ ll.block # OuterHeader
                  /\ lastCall.registered = InnerHeader
                  /\ Len(OpenLoops) = 2
                  /\ Block(OpenLoops[2].block).terminator.targetBlock = InnerHeader
                  /\ Len(shared.sb) >= 2
                  /\ SubSeq(shared.sb, Len(shared.sb) - 1, Len(shared.sb))
                        = <<"continue;", "\n">>

\* `if(c3) continue;` in the inner body
C4_Witness ==
    /\ func.name = "nestedLoops"
    /\ lastCall.op = "label"
    /\ lastCall.block = InnerHeader
    /\ lastCall.frame.begin = InnerHeader
    /\ Len(OpenLoops) = 2
    /\ CountOf("continue;", shared.sb) = 1
    /\ CountOf(BodyOf(InnerHeader), shared.sb) = 1

----------------------------------------------------------------------------
(* Properties of type legalization (SpecLegalize) *)

LegalizeCalls == { i \in DOMAIN callLog : callLog[i].op = "legalizeType" }

\* C8: within one legalization run two calls of legalizeType on the same IR
\* type return the identical LegalType, referring to the same object and not
\* to a rebuilt copy, and no object that existed after the first call has
\* changed after the second.
C8_IdempotentLegalization ==
    \A i, j \in LegalizeCalls :
        (i < j /\ callLog[i].arg = callLog[j].arg) =>
            /\ callLog[j].result = callLog[i].result
            /\ \A k \in DOMAIN callLog[i].objects :
                  callLog[j].objects[k] = callLog[i].objects[k]
            /\ (j = i + 1 => callLog[j].objects = callLog[i].objects)

\* a struct with ordinary and special fields legalized twice, another type
\* in between
C8_Witness ==
    /\ Len(callLog) = 3
    /\ callLog[1].op = "legalizeType"
    /\ callLog[1].arg = DeclRefType("Q")
    /\ callLog[1].result.flavor = "pair"
    /\ callLog[2].arg = DeclRefType("N")
    /\ callLog[3].arg = DeclRefType("Q")
    /\ callLog[3].result.obj = callLog[1].result.obj
    /\ Len(callLog[3].objects) > Len(callLog[1].objects)

----------------------------------------------------------------------------
(* Properties of the pass drivers (SpecLowerGenerics, SpecEmitEntryPoint) *)

\* C9: in lowerGenerics, once the error count of the sink is nonzero after
\* a pass, no later pass runs: a pass that leaves errors is the last one.
C9_FailFastLowerGenerics ==
    pipeline.name = "lowerGenerics" =>
        \A i \in DOMAIN pipeline.ran :
            pipeline.ran[i].errorCount # 0 => i = Len(pipeline.ran)

\* C10: in emitEntryPoint, when specializeGenerics or legalizeTypes leaves a
\* nonzero error count in the sink, no later pass runs, emitIRModule
\* included.
C10_NoPassAfterErrors ==
    pipeline.name = "emitEntryPoint" =>
        \A i \in DOMAIN pipeline.ran :
            ( /\ pipeline.ran[i].pass \in {"specializeGenerics", "legalizeTypes"}
              /\ pipeline.ran[i].errorCount # 0 )
                => i = Len(pipeline.ran)

----------------------------------------------------------------------------
(* Properties of RTTI specialization (SpecRTTI) *)

\* the integers that replaced references to the k-th RTTI object
RTTIReplacements(k) ==
    { context.mapTypeToRTTIObject[k].uses[i].replacedWith :
        i \in { j \in DOMAIN context.mapTypeToRTTIObject[k].uses :
                  context.mapTypeToRTTIObject[k].uses[j].op = "getAddr" } }

\* C11: after specializeRTTIObjectReferences the references to the k-th RTTI
\* object visited are replaced by the integer k-1 (0, 1, 2, ...), so the
\* references to two distinct RTTI objects are replaced by different integers.
C11_SequentialRTTIIDs ==
    (context.name = "SharedGenericsLoweringContext" /\ context.done) =>
        \A k \in DOMAIN context.mapTypeToRTTIObject :
            RTTIReplacements(k) \subseteq {k - 1}

----------------------------------------------------------------------------
(* Properties of module emission (SpecModule) *)

PositionsOf(tok) == { i \in 1..Len(shared.sb) : shared.sb[i] = tok }

\* the text holds NAME ( ); -- the forward declaration of a function
ForwardDeclared(name) ==
    \E i \in 1..(Len(shared.sb) - 2) :
        shared.sb[i] = name /\ shared.sb[i + 1] = "(" /\ shared.sb[i + 2] = ");"

\* where function bodies and global initializers begin
BodyPositions == PositionsOf(")") \cup PositionsOf("_init") \cup PositionsOf(" = ")

ForwardDeclsPrecedeBodies ==
    \A i \in PositionsOf(");") : \A j \in BodyPositions : i < j

FuncDeclsEmitted == context.name = "emitIRModule" /\ context.pc = "globals"

NeedsForwardDecl(inst) ==
    inst.op = "Func" /\ ~inst.generic /\ inst.definition /\ ~inst.entryPoint

StructDeclPositions(name) ==
    { i \in 1..(Len(shared.sb) - 1) :
        shared.sb[i] = "struct " /\ shared.sb[i + 1] = name }

\* the declared structs the non-static fields of a struct refer to
FieldStructs(name) ==
    { t \in StructNames :
        /\ ~StructDecls[t].builtin /\ ~StructDecls[t].magic
        /\ \E k \in DOMAIN StructDecls[name].fields :
              /\ ~StructDecls[name].fields[k].isStatic
              /\ t \in ReferredStruct(StructDecls[name].fields[k].type) }

\* C13: the struct of a non-static field (through arrays, pointers and
\* element types; neither built in nor magic) is declared before the struct
\* that holds the field, and every struct declaration comes before every
\* function forward declaration and every function body.
C13_StructsDepthFirstBeforeFunctions ==
    context.name = "emitIRModule" =>
        \A name \in StructNames : \A i \in StructDeclPositions(name) :
            /\ \A t \in FieldStructs(name) :
                  \E j \in StructDeclPositions(t) : j < i
            /\ \A j \in PositionsOf(");") \cup PositionsOf(")") : i < j

\* reached: S with its field structs T and U declared, then a forward
\* declaration and a function body
C13_Witness ==
    /\ FuncDeclsEmitted
    /\ StructDeclPositions("S") # {}
    /\ FieldStructs("S") = {"T", "U"}
    /\ PositionsOf(");") # {}
    /\ PositionsOf(")") # {}

----------------------------------------------------------------------------
(* Properties of GLSL-style line directives (SpecLine) *)

GLSLSourceIDs == shared.mapGLSLSourcePathToID

\* C14: source IDs of GLSL-style directives are handed out first come, first
\* served: the n-th distinct path gets ID n-1, a path keeps its ID, and no
\* two paths share an ID.
C14_SourceIDsFirstComeFirstServed ==
    /\ [](\A p, q \in DOMAIN GLSLSourceIDs :
              GLSLSourceIDs[p] = GLSLSourceIDs[q] => p = q)
    /\ [][ /\ \A p \in DOMAIN GLSLSourceIDs :
                /\ p \in DOMAIN GLSLSourceIDs'
                /\ GLSLSourceIDs'[p] = GLSLSourceIDs[p]
           /\ \A p \in (DOMAIN GLSLSourceIDs') \ DOMAIN GLSLSourceIDs :
                GLSLSourceIDs'[p] = Cardinality(DOMAIN GLSLSourceIDs) ]_vars

\* reached: two distinct paths were given the IDs 0 and 1
C14_Witness ==
    /\ compileRequest.lineDirectiveMode = "GLSL"
    /\ Cardinality(DOMAIN GLSLSourceIDs) = 2
    /\ { GLSLSourceIDs[p] : p \in DOMAIN GLSLSourceIDs } = {0, 1}

----------------------------------------------------------------------------
(* Properties of HLSL register semantics (SpecBinding) *)

\* what the last call of emitHLSLRegisterSemantic added to the text
EmittedSemantic == Suffix(shared.sb, Len(lastCall.before.sb))

\* sums over the first n records of the chain
RECURSIVE ChainIndexSum(_, _)
ChainIndexSum(kind, n) ==
    IF n = 0 THEN 0
    ELSE ChainIndexSum(kind, n - 1)
         + (IF HasResourceInfo(context.chain[n], kind)
            THEN FindResourceInfo(context.chain[n], kind).index ELSE 0)

RECURSIVE ChainSpaceSum(_, _)
ChainSpaceSum(kind, n) ==
    IF n = 0 THEN 0
    ELSE ChainSpaceSum(kind, n - 1)
         + (IF HasResourceInfo(context.chain[n], kind)
            THEN FindResourceInfo(context.chain[n], kind).space ELSE 0)
         + (IF HasResourceInfo(context.chain[n], "RegisterSpace")
            THEN FindResourceInfo(context.chain[n], "RegisterSpace").index ELSE 0)

RegisterKinds == {"ConstantBuffer", "ShaderResource", "UnorderedAccess", "SamplerState"}

\* register(L INDEX) or register(L INDEX, space SPACE)
RegisterAnnotation(kind, index, space) ==
    <<" : register(">> \o RegisterLetter(kind) \o Digits(index)
    \o (IF space # 0 THEN <<", space">> \o Digits(space) ELSE <<>>)
    \o <<")">>

\* C15: the register index of a binding annotation is the sum of the K-kind
\* indices over the chain, its space the sum of the K-kind spaces and of the
\* RegisterSpace indices over the chain; the annotation is emitted only when
\* the head record has K-kind info, and the space only when it is not zero.
C15_BindingChainSummation ==
    lastCall.op = "emitHLSLRegisterSemantic" =>
        /\ EmittedSemantic # <<>> => HasResourceInfo(Head(context.chain), lastCall.kind)
        /\ (lastCall.kind \in RegisterKinds
              /\ HasResourceInfo(Head(context.chain), lastCall.kind)) =>
             EmittedSemantic =
                RegisterAnnotation(lastCall.kind,
                                   ChainIndexSum(lastCall.kind, Len(context.chain)),
                                   ChainSpaceSum(lastCall.kind, Len(context.chain)))
        /\ (lastCall.kind = "Uniform"
              /\ HasResourceInfo(Head(context.chain), lastCall.kind)) =>
             SubSeq(EmittedSemantic, 4, Len(EmittedSemantic))
               \in { Digits(ChainIndexSum("Uniform", Len(context.chain)) \div 16) \o rest :
                       rest \in {<<>>, <<")">>} \cup { <<".", c, ")">> : c \in {"x", "y", "z", "w"} } }

\* reached: a chain of two records, both with constant-buffer info and a
\* register space, annotated with a summed index and a nonzero space
C15_Witness ==
    /\ lastCall.op = "emitHLSLRegisterSemantic"
    /\ lastCall.kind = "ConstantBuffer"
    /\ Len(context.chain) = 2
    /\ \A i \in 1..2 : /\ HasResourceInfo(context.chain[i], "ConstantBuffer")
                       /\ FindResourceInfo(context.chain[i], "ConstantBuffer").index = 1
                       /\ HasResourceInfo(context.chain[i], "RegisterSpace")
    /\ ChainSpaceSum("ConstantBuffer", 2) > 0
    /\ EmittedSemantic = RegisterAnnotation("ConstantBuffer", 2,
                                            ChainSpaceSum("ConstantBuffer", 2))

UniformOffset == ChainIndexSum("Uniform", Len(context.chain))

UniformCall ==
    /\ lastCall.op = "emitHLSLRegisterSemantic"
    /\ lastCall.kind = "Uniform"
    /\ HasResourceInfo(Head(context.chain), "Uniform")

\* C16: a summed uniform offset o that is a multiple of 4 is emitted as
\* register o div 16, followed -- only when o mod 16 is not 0 -- by the
\* component x, y, z or w of index (o mod 16) div 4; an offset that is not a
\* multiple of 4 faults and no binding is completed.
C16_UniformOffsetDecomposition ==
    UniformCall =>
        IF UniformOffset % 4 = 0
        THEN /\ ~shared.fault
             /\ EmittedSemantic =
                   <<" : ", lastCall.spelling, "(c">>
                   \o Digits(UniformOffset \div 16)
                   \o (IF UniformOffset % 16 # 0
                       THEN <<".", <<"x", "y", "z", "w">>[((UniformOffset % 16) \div 4) + 1]>>
                       ELSE <<>>)
                   \o <<")">>
        ELSE /\ shared.fault
             /\ CountOf(")", EmittedSemantic) = 0
             /\ CountOf(".", EmittedSemantic) = 0

\* reached: offsets 28 and 28 along the chain give register 3, component z
C16_Witness ==
    /\ UniformCall
    /\ Len(context.chain) = 2
    /\ UniformOffset = 56
    /\ EmittedSemantic = <<" : ", lastCall.spelling, "(c", "3", ".", "z", ")">>

----------------------------------------------------------------------------
(* Properties of the folding policy (SpecFold) *)

\* the type under all the pointer types of the instruction
RECURSIVE PointeeType(_)
PointeeType(type) == IF type.kind # "ptr" THEN type ELSE PointeeType(type.base)

\* C17: variables, global variables, global constants and parameters are
\* never folded; literals, field addresses, element pointers, buffer element
\* references and specializations always are; any other instruction is
\* folded exactly when the mode is GlobalConstant, or its type under the
\* pointers is a uniform parameter group, stream output or patch, or the
\* target is GLSL and that type is a resource, structured buffer or sampler
\* state.
C17_FoldingPolicy ==
    lastCall.op = "shouldFoldIRInstIntoUseSites" =>
        /\ context.op \in {"Var", "global_var", "global_constant", "Param"} =>
              ~lastCall.result
        /\ context.op \in {"IntLit", "FloatLit", "boolConst", "FieldAddress",
                           "getElementPtr", "BufferElementRef", "specialize"} =>
              lastCall.result
        /\ context.op \in {"Call", "Load", "Add"} =>
              (lastCall.result <=>
                 \/ lastCall.mode = "GlobalConstant"
                 \/ PointeeType(context.type).kind
                      \in {"uniformParameterGroup", "streamOutput", "patch"}
                 \/ /\ shared.target = "GLSL"
                    /\ PointeeType(context.type).kind
                         \in {"resource", "structuredBuffer", "samplerState"})

\* reached: a load of a pointer to a resource is materialized on HLSL, in
\* the default mode
C17_Witness ==
    /\ lastCall.op = "shouldFoldIRInstIntoUseSites"
    /\ lastCall.mode = "Default"
    /\ context.op = "Load"
    /\ context.type = PtrType([kind |-> "resource"])
    /\ shared.target = "HLSL"
    /\ ~lastCall.result

----------------------------------------------------------------------------
(* Properties of the label lookup of the region walk (SpecWalk) *)

\* the walk stopped at a label that is not the innermost registered target
\* of its kind
MultiLevelExit ==
    /\ lastCall.op = "label"
    /\ lastCall.block # lastCall.registered

\* the text ends with a plain break or continue statement
EndsWithPlainExit ==
    /\ Len(shared.sb) >= 2
    /\ SubSeq(shared.sb, Len(shared.sb) - 1, Len(shared.sb))
         \in { <<"break;", "\n">>, <<"continue;", "\n">> }

\* C18: when the walk reaches a block on the label stack that is not the
\* innermost registered target of its kind, no plain break or continue is
\* emitted for it (a diagnostic is reported instead).
C18_MultiLevelExitsSurfaced == MultiLevelExit => ~EndsWithPlainExit

----------------------------------------------------------------------------
(* Properties of the default label of a switch (SpecWalk) *)

SwitchTerminator == func.blocks["E"].terminator

\* the labels, opening braces and bodies of the groups of the emitted text
DefaultSkeleton(text) ==
    SelectSeq(text,
        LAMBDA tok : \/ tok \in {"case ", "default:", "{"}
                     \/ \E i \in DOMAIN SwitchCases : tok = SwitchCases[i].value
                     \/ \E l \in CaseTargets \cup ({SwitchTerminator.defaultLabel}
                                                    \ {SwitchTerminator.breakLabel}) :
                           tok = BodyOf(l))

\* the groups of cases, `default:` closing the label list of the group whose
\* target is the default target
RECURSIVE GroupsWithDefault(_)
GroupsWithDefault(i) ==
    IF i > Len(SwitchCases) THEN <<>>
    ELSE <<"case ", SwitchCases[i].value>>
         \o (IF i < Len(SwitchCases) /\ SwitchCases[i + 1].label = SwitchCases[i].label
             THEN <<>>
             ELSE (IF SwitchCases[i].label = SwitchTerminator.defaultLabel
                   THEN <<"default:">> ELSE <<>>)
                  \o <<"{", BodyOf(SwitchCases[i].label)>>)
         \o GroupsWithDefault(i + 1)

\* what follows the `default:` label of a group of its own: its body, then
\* break; and the closing braces of the group and of the switch
AfterSeparateDefault(text) ==
    SelectSeq(Suffix(text, CHOOSE i \in 1..Len(text) : text[i] = "default:"),
              LAMBDA tok : tok \in {"{", "break;", "}", "case ",
                                    BodyOf(SwitchTerminator.defaultLabel)})

\* C19: a default target that is the break block gets no `default:` label;
\* otherwise `default:` is emitted once, at the end of the label list of the
\* group of cases whose target is the default target if there is one, and
\* else as a final group of its own whose body ends with break;.
C19_DefaultLabel ==
    (func.name = "switch" /\ WalkDone) =>
        /\ SwitchTerminator.defaultLabel = SwitchTerminator.breakLabel =>
              CountOf("default:", shared.sb) = 0
        /\ SwitchTerminator.defaultLabel # SwitchTerminator.breakLabel =>
              CountOf("default:", shared.sb) = 1
        /\ DefaultSkeleton(shared.sb) =
              <<"{", "{">> \o GroupsWithDefault(1)
              \o (IF SeparateDefault
                  THEN <<"default:", "{", BodyOf(SwitchTerminator.defaultLabel)>>
                  ELSE <<>>)
        /\ SeparateDefault =>
              SubSeq(AfterSeparateDefault(shared.sb), 1, 5) =
                 <<"{", BodyOf(SwitchTerminator.defaultLabel), "break;", "}", "}">>

\* reached: `default:` closes the label list of the cases 2 and 3, whose
\* target C2 is the default target
C19_Witness ==
    /\ func.name = "switch"
    /\ WalkDone
    /\ SwitchTerminator.defaultLabel = "C2"
    /\ DefaultSkeleton(shared.sb) =
          <<"{", "{", "case ", "1", "{", "c1",
            "case ", "2", "case ", "3", "default:", "{", "c2">>

----------------------------------------------------------------------------
(* Properties of the final text of emitEntryPoint (SpecFinalText) *)

\* the extension lines of a text that name an extension
ExtensionLinesOf(text, name) ==
    { i \in 1..(Len(text) - 1) : text[i] = "#extension " /\ text[i + 1] = name }

\* C20: in the final text of emitEntryPoint every extension name appears in
\* at most one extension line, whether the line comes from an extension
\* directive of the module or from requireGLSLExtension.
C20_OneLinePerExtension ==
    (context.name = "emitEntryPoint" /\ context.pc = "return") =>
        \A name \in ExtensionNames :
            Cardinality(ExtensionLinesOf(context.finalResult, name)) <= 1

----------------------------------------------------------------------------
(* Properties of intrinsic call expansion (SpecIntrinsic) *)

\* what the call of emitTargetIntrinsicCallExpr added to the text
EmittedCall == Suffix(shared.sb, Len(lastCall.before.sb))

\* definition(arg1, ..., argN)
RECURSIVE PlainCallArgs(_, _)
PlainCallArgs(args, n) ==
    IF n = 0 THEN <<>>
    ELSE PlainCallArgs(args, n - 1)
         \o (IF n > 1 THEN <<", ">> ELSE <<>>) \o <<args[n].name>>

PlainCall(definition, args) ==
    definition \o <<"(">> \o PlainCallArgs(args, Len(args)) \o <<")">>

\* letters, digits and underscore only
IsIdentifier(definition) ==
    /\ definition # <<>>
    /\ \A i \in DOMAIN definition :
          definition[i] \in LowerCaseLetters \cup UpperCaseLetters
                            \cup DecimalDigits \cup {"_"}

\* C24: a definition that is an identifier (letters, digits and underscore)
\* is emitted as the plain call definition(arg1, ..., argN); any other
\* definition is expanded as a template, in which $k emits argument k and
\* k must be less than the number of arguments.
C24_IntrinsicExpansionByDefinition ==
    lastCall.op = "emitTargetIntrinsicCallExpr" =>
        /\ IsIdentifier(context.definition) =>
              EmittedCall = PlainCall(context.definition, context.args)
        /\ context.definition = <<"$", "1">> =>
              IF Len(context.args) > 1
              THEN EmittedCall = <<"(", "(", context.args[2].name, ")", ")">>
              ELSE shared.fault

----------------------------------------------------------------------------
(* Properties of the assembly of the final text (SpecFinalText) *)

\* a $P of a definition was expanded for a texture argument
TexelFetchExpanded ==
    \E i \in DOMAIN callLog :
        /\ callLog[i].op = "emitTargetIntrinsicCallExpr"
        /\ \E k \in DOMAIN callLog[i].arg.definition : callLog[i].arg.definition[k] = "P"
        /\ callLog[i].arg.args[1].type.kind = "texture"

\* the part of the final text a token belongs to: 1 the prefix, 2 the
\* extension lines, 3 the fallback sampler declaration, 4 the code
PartOf(tok) ==
    CASE tok \in {"#version ", " : "} -> 1
      [] tok = " : require\n" -> 2
      [] tok = HackSamplerLine[1] -> 3
      [] tok = ";" -> 4
      [] OTHER -> 0

PartsInOrder(text) ==
    \A i, j \in DOMAIN text :
        (i < j /\ PartOf(text[i]) # 0 /\ PartOf(text[j]) # 0) =>
            PartOf(text[i]) <= PartOf(text[j])

\* C21: the final text is the prefix, the extension lines, the fallback
\* sampler declaration and the code, in this order; the declaration is there
\* if and only if a $P was expanded during the emission, and the flag that
\* records it is never cleared.
C21_FinalTextAssembly ==
    /\ []((context.name = "emitEntryPoint" /\ context.pc = "return") =>
            /\ PartsInOrder(context.finalResult)
            /\ CountOf(HackSamplerLine[1], context.finalResult)
                 = (IF TexelFetchExpanded THEN 1 ELSE 0)
            /\ CountOf(HackSamplerLine[3], context.finalResult)
                 = (IF TexelFetchExpanded THEN 1 ELSE 0))
    /\ [][shared.needHackSamplerForTexelFetch =>
            shared'.needHackSamplerForTexelFetch]_vars

\* reached: a final text on GLSL with a prefix, an extension line, the
\* sampler declaration after a texel fetch, and code
C21_Witness ==
    /\ context.name = "emitEntryPoint" /\ context.pc = "return"
    /\ TexelFetchExpanded
    /\ \A part \in 1..4 :
          \E i \in DOMAIN context.finalResult : PartOf(context.finalResult[i]) = part

----------------------------------------------------------------------------
(* Properties of invariant faults during emission (SpecWalk) *)

UnhandledPlaceholder == "/* unhandled */"

\* C22: an instruction whose opcode has no case, and a block terminator the
\* region walk cannot lower (a plain conditional branch included), raise an
\* invariant fault: no placeholder text is ever written for them, the fault
\* is set once an unknown terminator was met, and a faulted context receives
\* no further text.
C22_InvariantFaultsEndProcessing ==
    /\ [](CountOf(UnhandledPlaceholder, shared.sb) = 0)
    /\ [](lastCall.op = "unexpected" => shared.fault)
    /\ [][shared.fault => shared'.sb = shared.sb]_vars

----------------------------------------------------------------------------
(* Properties of the clean-up of RTTI types (SpecSpecializeRTTI) *)

SpecializeRTTIObjectsCompleted ==
    /\ context.name = "specializeRTTIObjects"
    /\ pipeline.pc = "return"
    /\ getErrorCount(pipeline.sink) = 0

\* the operand slots of the instructions at entry that named an instruction
\* whose opcode is one of ops, for the instructions that are still there
FormerUses(ops) ==
    { <<i, k>> \in (DOMAIN context.entry) \X (1..2) :
        /\ k \in DOMAIN context.entry[i].operands
        /\ InstWithID(context.entry, context.entry[i].operands[k]).op \in ops
        /\ i \in InstsWithOp(context.globalInsts, context.entry[i].op) }

\* the instruction that an operand slot of the i-th instruction at entry
\* names now
UsedNow(use) ==
    InstWithID(context.globalInsts,
               InstWithID(context.globalInsts, use[1]).operands[use[2]])

IsDummyInterfaceObj(inst) ==
    /\ inst.op = "IntLit"
    /\ inst.value = 0
    /\ InstWithID(context.globalInsts, inst.operands[1]).op = "IntType"

\* C23: after specializeRTTIObjects completes with a zero error count, no
\* global instruction is a WitnessTableIDType, an RTTIHandleType or an
\* InterfaceType; every former use of a handle type names the 64-bit unsigned
\* integer type, and every former use of an interface type names one and the
\* same integer constant 0.
C23_RTTITypesCleanedUp ==
    SpecializeRTTIObjectsCompleted =>
        /\ \A i \in DOMAIN context.globalInsts :
              context.globalInsts[i].op \notin
                  {"WitnessTableIDType", "RTTIHandleType", "InterfaceType"}
        /\ \A use \in FormerUses({"WitnessTableIDType", "RTTIHandleType"}) :
              UsedNow(use).op = "UInt64Type"
        /\ \A use \in FormerUses({"InterfaceType"}) :
              IsDummyInterfaceObj(UsedNow(use))
        /\ Cardinality({ UsedNow(use).id : use \in FormerUses({"InterfaceType"}) }) <= 1
        /\ Cardinality(InstsWithOp(context.globalInsts, "UInt64Type")) <= 1

C23_Witness ==
    /\ SpecializeRTTIObjectsCompleted
    /\ FormerUses({"RTTIHandleType"}) # {}
    /\ FormerUses({"InterfaceType"}) # {}
    /\ InstsWithOp(context.entry, "UInt64Type") = {}

----------------------------------------------------------------------------
(* Properties of the termination of the region walk (SpecWalkFair) *)

WalkEnded == frames = <<FuncFrame("func-done")>> \/ shared.fault

\* every cycle of the block graph goes through the target block of a loop
StructuredFunc == func # BranchCycleFunc

C25_StructuredWalkTerminates == StructuredFunc => <>WalkEnded

----------------------------------------------------------------------------
(* Properties of the phi assignments of a branch (SpecWalk) *)

IsIndentation(tok) == tok = " "
IsText(tok) == ~IsIndentation(tok)

\* the assignments the last branch emitted, without their indentation
PhiText ==
    SelectSeq(SubSeq(shared.sb, lastCall.phi[1], lastCall.phi[2]), IsText)

\* the statements  lhs = rhs ;  of a text, executed one after the other
RECURSIVE RunAssignments(_, _)
RunAssignments(env, text) ==
    IF Len(text) < 5 THEN env
    ELSE RunAssignments([env EXCEPT ![text[1]] = env[text[3]]],
                        SubSeq(text, 6, Len(text)))

PhiNames == {"p1", "p2", "x", "y", "b"}

\* every name holds the value it had before the branch
ValuesBeforeBranch == [n \in PhiNames |-> n]

BranchWithArgs ==
    /\ lastCall.op \in {"unconditionalBranch", "loop"}
    /\ Terminator(lastCall.block).args # <<>>

\* C26: the phi assignments of a branch or loop instruction with the
\* arguments a_1..a_k give every parameter p_i of the target block the value
\* a_i had before the branch, also when an argument is itself a parameter of
\* the target; they stand before any text of the target block and before
\* the break or continue that stands for the jump.
C26_PhiAssignmentsSimultaneous ==
    BranchWithArgs =>
        /\ \A i \in DOMAIN Terminator(lastCall.block).args :
              RunAssignments(ValuesBeforeBranch, PhiText)
                  [Block(Terminator(lastCall.block).targetBlock).params[i]]
                = Terminator(lastCall.block).args[i]
        /\ lastCall.op = "unconditionalBranch" =>
              lastCall.phi[2] = Len(shared.sb)
        /\ lastCall.op = "loop" =>
              SelectSeq(SubSeq(shared.sb, lastCall.phi[2] + 1, Len(shared.sb)),
                        IsText)
                 \in { <<"for(;;)", "\n", "{", "\n">>,
                       <<"[unroll]", "\n", "for(;;)", "\n", "{", "\n">> }

----------------------------------------------------------------------------
(* Properties of the cursor after a flush (SpecLine) *)

\* C27: when emitLineDirectiveIfNeeded returns in a directive-enabled mode
\* for a valid location, the path and the line of the cursor are those of
\* the requested location, the column is 1 after a directive, and the
\* assertion after the padding newlines held.
C27_CursorResynchronized ==
    (FlushedValidLocation /\ DirectiveEnabled) =>
        /\ lastCall.asserted
        /\ lastCall.synced.path = lastCall.req.path
        /\ lastCall.synced.line = lastCall.req.line
        /\ CountOf(DirectiveStart, lastCall.flushed) > 0 =>
              lastCall.synced.column = 1

\* reached: a flush that wrote a directive from a cursor on a later line,
\* and left the cursor on the requested line
C27_Witness ==
    /\ FlushedValidLocation /\ DirectiveEnabled
    /\ lastCall.req.path = lastCall.cursor.path
    /\ lastCall.req.line < lastCall.cursor.line
    /\ CountOf(DirectiveStart, lastCall.flushed) = 1
    /\ lastCall.synced.line = lastCall.req.line

----------------------------------------------------------------------------
(* Properties of deferred source-location updates (SpecLine) *)

\* advanceToSourceLocation has just run
Advanced == lastCall'.op = "advance"

\* C28: advanceToSourceLocation writes no text and leaves the cursor alone;
\* a location of line <= 0 changes nothing, any other one becomes the pending
\* location. The pending location is compared with the cursor at the next
\* emission of text, once: what that emission writes is the padding or the
\* directive of one flush followed by the text itself, nothing is written
\* for a location when none is pending, and the pending flag is clear
\* afterwards.
C28_DeferredLocationUpdates ==
    /\ [][Advanced =>
            IF lastCall'.arg.line <= 0 THEN shared' = shared
            ELSE shared' = [shared EXCEPT
                              !.needToUpdateSourceLocation = TRUE,
                              !.nextSourceLocation = lastCall'.arg]]_vars
    /\ [](lastCall.op = "emit" =>
            /\ ~shared.needToUpdateSourceLocation
            /\ lastCall.written = lastCall.flushed \o lastCall.arg
            /\ ~lastCall.need => lastCall.flushed = <<>>)

\* reached: a second location was recorded over a pending one, and the next
\* emission padded two lines up to it and then wrote its own text
C28_Witness ==
    /\ FlushedValidLocation /\ DirectiveEnabled
    /\ lastCall.flushed = <<"\n", "\n">>
    /\ lastCall.written = <<"\n", "\n", "x", "\n", "y">>
    /\ lastCall.synced.line = lastCall.req.line

----------------------------------------------------------------------------
(* Properties of unique-ID allocation (SpecUniqueID) *)

HandedOutIDs == { h.id : h \in context.handedOut }

\* the _S<id> part of the text the last call produced
LastNameSuffix ==
    SubSeq(lastCall.text, Len(lastCall.arg.name) + 1 +
                          (IF lastCall.op = "emitHLSLParameterBlock" THEN 1 ELSE 0),
           Len(lastCall.text))

\* C29: the IDs handed out are 1, 2, 3, ... in this order, each to one
\* entity; a declaration or an IR value gets the same ID on every call; two
\* different entities never get the same name _S<id>; the text of a call
\* ends with the name of its entity.
C29_UniqueIDs ==
    /\ [](context.name = "uniqueID" =>
            /\ HandedOutIDs = 1..(shared.uniqueIDCounter - 1)
            /\ \A h1, h2 \in context.handedOut :
                  /\ h1.entity = h2.entity => h1.id = h2.id
                  /\ h1.entity # h2.entity => h1.id # h2.id /\ h1.name # h2.name
            /\ lastCall.op \in {"emitName", "getIRName", "emitHLSLParameterBlock"} =>
                  \E h \in context.handedOut :
                      h.entity = lastCall.arg /\ h.name = LastNameSuffix)
    /\ [][context.name = "uniqueID" =>
            /\ \A h \in context'.handedOut \ context.handedOut :
                  /\ h.id = shared.uniqueIDCounter
                  /\ shared'.uniqueIDCounter = shared.uniqueIDCounter + 1
            /\ context'.handedOut = context.handedOut =>
                  shared'.uniqueIDCounter = shared.uniqueIDCounter]_vars

\* reached: the ID 10 went to a declaration, after both IR values and
\* seven parameter blocks got theirs
C29_Witness ==
    /\ context.name = "uniqueID"
    /\ lastCall.op = "emitName"
    /\ shared.mapDeclToID[lastCall.arg] = 10
    /\ shared.uniqueIDCounter = 11
    /\ emitCount = 2
    /\ DOMAIN shared.mapIRValueToID = IRValues

----------------------------------------------------------------------------
(* Properties of the indentation level (SpecWalk) *)

\* the levels of indentation a frame has opened and not yet closed: it is
\* inside the braces of a function body, of the initializer of a global
\* variable, of an arm of an `if`, of a loop body, or inside the label and
\* the braces of a case of a `switch`
OpenIndents(frame) ==
    IF frame.pc \in {"func-body", "global-var-init",
                     "ifElse-true", "ifElse-false", "loop-body"}
    THEN 1
    ELSE IF frame.pc \in {"switch-case-body", "switch-default-body"} THEN 2
    ELSE 0

RECURSIVE OpenIndentsOf(_)
OpenIndentsOf(stack) ==
    IF stack = <<>> THEN 0
    ELSE OpenIndents(Head(stack)) + OpenIndentsOf(Tail(stack))

\* a walk of a region returns to the frame that called it
WalkReturns ==
    /\ frames # <<>>
    /\ Top.pc = "top"
    /\ frames' = SubSeq(frames, 1, Len(frames) - 1)

\* C30: the indentation level is never negative; it is the number of levels
\* the suspended callers have opened, so that a walk of a region, however
\* it ends, returns with the level it was entered with; the level is 0
\* after a function body.
C30_IndentationBalanced ==
    /\ [](shared.indentLevel >= 0)
    /\ [](shared.indentLevel = OpenIndentsOf(frames))
    /\ [][WalkReturns => shared'.indentLevel = shared.indentLevel]_vars
    /\ [](frames = <<FuncFrame("func-done")>> => shared.indentLevel = 0)

\* reached: the end of a function whose body held a `switch` with a default
\* arm of its own, back at level 0
C30_Witness ==
    /\ frames = <<FuncFrame("func-done")>>
    /\ func.name = "switch"
    /\ CountOf("default:", shared.sb) = 1
    /\ CountOf("break;", shared.sb) >= 2
    /\ shared.indentLevel = 0
====
